---- MODULE Spec2Model ----
(***************************************************************************)
(* Model of the memecoin-lending program: the loan lifecycle               *)
(* (create_loan, repay_loan, liquidate) over ProtocolState, TokenConfig,   *)
(* Loan, the per-loan escrow vault and the lamport balances they move.     *)
(*                                                                         *)
(* An instruction is a pure operator from the world it starts in to the    *)
(* result (error code, world at the point it returned).  The host commits  *)
(* the world of an instruction that returned Ok and discards the world of  *)
(* one that returned an error.  liquidate has one suspension point, the    *)
(* external swap invocation; the world of the instruction in flight is     *)
(* kept in `inflight` until the swap returns.                              *)
(*                                                                         *)
(* Amounts (lamports and token base units) are counted in units of         *)
(* AmountUnit so that they fit the model checker's integers; prices keep   *)
(* the program's PRICE_SCALE, basis points keep BPS_DIVISOR.               *)
(***************************************************************************)
EXTENDS Integers, Sequences, FiniteSets, TLC

(* ---------------------------------------------------------------------- *)
(* Program constants                                                       *)
(* ---------------------------------------------------------------------- *)
BPS_DIVISOR == 10000
PRICE_SCALE == 1000000
PROTOCOL_FEE_BPS == 200
MAX_TOKEN_EXPOSURE_BPS == 1000
MAX_SINGLE_LOAN_BPS == 1000
LOAN_FEE_TREASURY_BPS == 5000
LOAN_FEE_STAKING_BPS == 2500
LOAN_FEE_OPERATIONS_BPS == 2500
OPERATIONS_SPLIT_BPS == 500
MAX_LOAN_DURATION == 604800
MIN_LOAN_DURATION == 43200
BASE_DURATION_SECONDS == 172800
MAX_LTV_BONUS_BPS == 2500
MAX_LTV_PENALTY_BPS == 2500
MAX_LIQUIDATION_SLIPPAGE_BPS == 500
MIN_COLLATERAL_VALUE_LAMPORTS == 10000000
MAX_EFFECTIVE_LIQUIDATION_LTV_BPS == 9000
MAX_PRICE_SIGNATURE_AGE_SECONDS == 30
MAX_PRICE_DEVIATION_CREATE_BPS == 2000
LIQUIDATION_BUFFER_BPS == 4000
LTV_BRONZE_BPS == 2500
LTV_GOLD_BPS == 5000
\* protocol_state.protocol_fee_bps as initialize writes it.
INITIAL_PROTOCOL_FEE_BPS == 100
\* The splits as initialize writes them, and the bound update_fees puts on
\* protocol_fee_bps.
INITIAL_TREASURY_FEE_BPS == 9000
INITIAL_BUYBACK_FEE_BPS == 500
INITIAL_OPERATIONS_FEE_BPS == 500
MAX_PROTOCOL_FEE_BPS == 500
FEE_SPLIT_TOTAL_BPS == 10000
ADMIN_TRANSFER_DELAY == 172800
\* The bounds calculate_duration_adjusted_ltv puts on its result.
MAX_ADJUSTED_LTV_BPS == 9000
MIN_ADJUSTED_LTV_BPS == 1000
U16_MODULUS == 65536

\* One model unit of lamports / token base units.
AmountUnit == 10 ^ 6
MinCollateralValue == MIN_COLLATERAL_VALUE_LAMPORTS \div AmountUnit

(* ---------------------------------------------------------------------- *)
(* Bounds of the model                                                     *)
(* ---------------------------------------------------------------------- *)
MaxLoans == 1
MaxTicks == 2

(* ---------------------------------------------------------------------- *)
(* SafeMath                                                                *)
(* ---------------------------------------------------------------------- *)
Min(a, b) == IF a <= b THEN a ELSE b
Max(a, b) == IF a >= b THEN a ELSE b

\* (x * y) % c and floor(x * y / c) for 0 <= x < c and y >= 0, computed bit by
\* bit of y without forming the product x * y (the code widens to u128 for
\* the same reason).
RECURSIVE WideRem(_, _, _)
WideRem(x, y, c) ==
    IF y = 0 THEN 0 ELSE (2 * WideRem(x, y \div 2, c) + (y % 2) * x) % c

RECURSIVE WideQuot(_, _, _)
WideQuot(x, y, c) ==
    IF y = 0 THEN 0
    ELSE 2 * WideQuot(x, y \div 2, c)
         + (2 * WideRem(x, y \div 2, c) + (y % 2) * x) \div c

\* SafeMath::mul_div for c > 0: floor(a * b / c) over the widened product.
\* Callers test c = 0 (DivisionByZero) before they use it.
mul_div(a, b, c) ==
    IF b = 0 \/ a <= 2147483647 \div b THEN (a * b) \div c
    ELSE (a \div c) * b + WideQuot(a % c, b, c)

(* ---------------------------------------------------------------------- *)
(* LoanCalculator                                                          *)
(* ---------------------------------------------------------------------- *)
\* collateral * price * ltv * 1000 / PRICE_SCALE / BPS_DIVISOR
\* (dividing the product by PRICE_SCALE and again by BPS_DIVISOR after the
\* factor 1000 is one floor division by (PRICE_SCALE / 1000) * BPS_DIVISOR)
calculate_loan_amount(collateral_amount, token_price, ltv_bps) ==
    mul_div(collateral_amount * token_price, ltv_bps,
            (PRICE_SCALE \div 1000) * BPS_DIVISOR)

\* effective_ltv before it is bounded; below 0 where SafeMath::sub fails.
duration_scaled_ltv(base_ltv_bps, duration_seconds) ==
    LET duration == Min(Max(duration_seconds, MIN_LOAN_DURATION), MAX_LOAN_DURATION)
        effective_ltv ==
            IF duration <= BASE_DURATION_SECONDS
            THEN LET duration_range == BASE_DURATION_SECONDS - MIN_LOAN_DURATION
                     duration_diff == BASE_DURATION_SECONDS - duration
                     bonus == mul_div(base_ltv_bps,
                                      mul_div(MAX_LTV_BONUS_BPS, duration_diff, duration_range),
                                      BPS_DIVISOR)
                 IN  base_ltv_bps + bonus
            ELSE LET duration_range == MAX_LOAN_DURATION - BASE_DURATION_SECONDS
                     duration_diff == duration - BASE_DURATION_SECONDS
                     penalty == mul_div(base_ltv_bps,
                                        mul_div(MAX_LTV_PENALTY_BPS, duration_diff, duration_range),
                                        BPS_DIVISOR)
                 IN  base_ltv_bps - penalty
    IN  effective_ltv

calculate_duration_adjusted_ltv_unbounded(base_ltv_bps, duration_seconds) ==
    duration_scaled_ltv(base_ltv_bps, duration_seconds)

calculate_duration_adjusted_ltv(base_ltv_bps, duration_seconds) ==
    LET effective_ltv == duration_scaled_ltv(base_ltv_bps, duration_seconds)
    IN  IF effective_ltv > MAX_ADJUSTED_LTV_BPS THEN MAX_ADJUSTED_LTV_BPS
        ELSE IF effective_ltv < MIN_ADJUSTED_LTV_BPS THEN MIN_ADJUSTED_LTV_BPS
        ELSE effective_ltv

calculate_liquidation_price_uncapped(sol_borrowed, collateral_amount, ltv_bps, liquidation_buffer_bps) ==
    LET divisor == mul_div(collateral_amount, ltv_bps + liquidation_buffer_bps, BPS_DIVISOR)
    IN  IF divisor = 0 THEN [err |-> "DivisionByZero", v |-> 0]
        ELSE [err |-> "Ok", v |-> mul_div(sol_borrowed, BPS_DIVISOR, divisor)]

\* [err, v]: the inner mul_div is the divisor of the outer one.
calculate_liquidation_price(sol_borrowed, collateral_amount, ltv_bps, liquidation_buffer_bps) ==
    LET raw_effective_ltv == ltv_bps + liquidation_buffer_bps
        effective_ltv == Min(raw_effective_ltv, MAX_EFFECTIVE_LIQUIDATION_LTV_BPS)
        divisor == mul_div(collateral_amount, effective_ltv, BPS_DIVISOR)
    IN  IF divisor = 0 THEN [err |-> "DivisionByZero", v |-> 0]
        ELSE [err |-> "Ok", v |-> mul_div(sol_borrowed, BPS_DIVISOR, divisor)]

(* ---------------------------------------------------------------------- *)
(* ValidationUtils                                                         *)
(* ---------------------------------------------------------------------- *)
validate_loan_duration(duration_seconds) ==
    duration_seconds >= MIN_LOAN_DURATION /\ duration_seconds <= MAX_LOAN_DURATION

\* Seeded fault: the time trigger with the boundary included.
is_loan_liquidatable_at_due(loan, current_time) == current_time >= loan.due_at

is_loan_liquidatable_by_time(loan, current_time) == current_time > loan.due_at

is_loan_liquidatable_by_price(loan, current_price) == current_price <= loan.liquidation_price

(* ---------------------------------------------------------------------- *)
(* Identities and input sets                                               *)
(* ---------------------------------------------------------------------- *)
Borrowers == {"alice", "bob", "carol"}
ProtocolAdmin == "admin"
Liquidator == "liquidator"
PriceAuthority == "backend"
Signers == Borrowers \cup {Liquidator}
Tokens == {"RAY", "PUMP"}
PoolTypeOf(t) == IF t = "PUMP" THEN "Pumpfun" ELSE "Raydium"

BasePrice == PRICE_SCALE
CollateralChoices == {0, 2, 10, 20, 40, 80}
ValidCollateral == 20
TickSeconds == MIN_LOAN_DURATION
InitialTreasury == 100000
InitialBorrowerLamports == 500
InitialTokenBalance == 100
MinLoanAmount == 4000
MaxLoanAmount == 20000
PriorExposure == 1000000

(* ---------------------------------------------------------------------- *)
(* State                                                                   *)
(* ---------------------------------------------------------------------- *)
VARIABLES
    protocol_state,   \* ProtocolState
    token_config,     \* TokenConfig of each whitelisted mint
    loans,            \* Loan records, loans[i].index = i - 1
    vault,            \* per loan: escrowed collateral, vault authority lamports
    lamports,         \* treasury, operations wallet, reward vault, borrowers
    token_balance,    \* borrower token accounts
    user_exposure,    \* UserExposure of each borrower
    pool_price,       \* price read_price_from_pool returns for each mint
    now,              \* Clock::get().unix_timestamp
    inflight,         \* the instruction suspended in its external swap
    last,             \* the last step taken and what it returned
    staking_pool,     \* StakingPool
    user_stake,       \* UserStake of each wallet
    staking_tokens    \* staking vault and the wallets' staking-token accounts

vars == <<protocol_state, token_config, loans, vault, lamports, token_balance,
          user_exposure, pool_price, now, inflight, last,
          staking_pool, user_stake, staking_tokens>>

\* The accounts of the lending instructions, and those of the staking ones.
lending_vars == <<protocol_state, token_config, loans, vault, token_balance,
                  user_exposure, pool_price, inflight>>
staking_vars == <<staking_pool, user_stake, staking_tokens>>

\* The accounts an instruction reads and writes.
World == [protocol_state |-> protocol_state, token_config |-> token_config,
          loans |-> loans, vault |-> vault, lamports |-> lamports,
          token_balance |-> token_balance, user_exposure |-> user_exposure]

NoTx == [op |-> "none"]

Result(e, w) == [err |-> e, w |-> w]

(* ---------------------------------------------------------------------- *)
(* ReentrancyGuard                                                         *)
(* ---------------------------------------------------------------------- *)
\* Seeded fault: enter that sets the flag without testing it.
ReentrancyGuard_enter_unchecked(w) ==
    Result("Ok", [w EXCEPT !.protocol_state.reentrancy_guard = TRUE])

ReentrancyGuard_enter(w) ==
    IF w.protocol_state.reentrancy_guard
    THEN Result("ReentrancyDetected", w)
    ELSE Result("Ok", [w EXCEPT !.protocol_state.reentrancy_guard = TRUE])

\* Seeded fault: exit that leaves the flag set.
ReentrancyGuard_exit_skipped(w) == w

ReentrancyGuard_exit(w) == [w EXCEPT !.protocol_state.reentrancy_guard = FALSE]

(* ---------------------------------------------------------------------- *)
(* create_loan                                                             *)
(* ---------------------------------------------------------------------- *)
\* The constraints of the CreateLoan accounts, in declaration order.
CreateLoan_accounts(w, a) ==
    IF w.protocol_state.paused THEN "ProtocolPaused"
    ELSE IF ~w.token_config[a.token].enabled THEN "TokenDisabled"
    ELSE IF w.token_config[a.token].blacklisted THEN "TokenBlacklisted"
    ELSE IF w.token_balance[a.borrower][a.token] < a.collateral_amount
         THEN "InsufficientTokenBalance"
    ELSE IF a.price_authority # PriceAuthority THEN "InvalidPriceAuthority"
    ELSE "Ok"

\* Deviation of the approved price from the pool price, in basis points.
price_deviation(approved_price, price) ==
    IF approved_price > price
    THEN mul_div(approved_price - price, BPS_DIVISOR, price)
    ELSE mul_div(price - approved_price, BPS_DIVISOR, approved_price)

max_single_loan(treasury_balance) ==
    mul_div(treasury_balance, MAX_SINGLE_LOAN_BPS, BPS_DIVISOR)

\* Seeded fault: a token exposure cap of the whole treasury.
max_token_exposure_uncapped(treasury_balance) == treasury_balance

max_token_exposure(treasury_balance) ==
    mul_div(treasury_balance, MAX_TOKEN_EXPOSURE_BPS, BPS_DIVISOR)

\* The writes of a create_loan that passed every check.
create_loan_apply(w, a, clock, sol_loan_amount, liquidation_price) ==
    LET ps == w.protocol_state
        tc == w.token_config[a.token]
        loan == [borrower |-> a.borrower,
                 token_mint |-> a.token,
                 collateral_amount |-> a.collateral_amount,
                 sol_borrowed |-> sol_loan_amount,
                 entry_price |-> a.approved_price,
                 liquidation_price |-> liquidation_price,
                 created_at |-> clock,
                 due_at |-> clock + a.duration_seconds,
                 status |-> "Active",
                 index |-> ps.total_loans_created]
    IN  [w EXCEPT
           !.token_balance[a.borrower][a.token] = @ - a.collateral_amount,
           !.vault = Append(@, [amount |-> a.collateral_amount, lamports |-> 0,
                                closed |-> FALSE]),
           !.lamports["treasury"] = @ - sol_loan_amount,
           !.lamports[a.borrower] = @ + sol_loan_amount,
           !.loans = Append(@, loan),
           !.protocol_state.total_loans_created = @ + 1,
           !.protocol_state.total_sol_borrowed = @ + sol_loan_amount,
           !.protocol_state.active_loans_count = @ + 1,
           !.token_config[a.token].active_loans_count = @ + 1,
           !.token_config[a.token].total_volume = @ + sol_loan_amount,
           !.token_config[a.token].total_active_borrowed = @ + sol_loan_amount]

create_loan_handler(w0, a, clock, price) ==
    LET g == ReentrancyGuard_enter(w0)
        w == g.w
        tc == w.token_config[a.token]
        price_age == clock - a.price_timestamp
        current_price == a.approved_price
        collateral_value == mul_div(a.collateral_amount, current_price, PRICE_SCALE)
        effective_ltv == calculate_duration_adjusted_ltv(tc.ltv_bps, a.duration_seconds)
        sol_loan_amount == calculate_loan_amount(a.collateral_amount, current_price,
                                                 effective_ltv)
        treasury_balance == w.lamports["treasury"]
        new_token_exposure == tc.total_active_borrowed + sol_loan_amount
        liq == calculate_liquidation_price(sol_loan_amount, a.collateral_amount,
                                           tc.ltv_bps, LIQUIDATION_BUFFER_BPS)
    IN  IF g.err # "Ok" THEN g
        ELSE IF ~(a.collateral_amount > 0) THEN Result("InvalidAmount", w)
        ELSE IF ~validate_loan_duration(a.duration_seconds)
             THEN Result("InvalidLoanDuration", w)
        ELSE IF ~(price_age >= 0 /\ price_age <= MAX_PRICE_SIGNATURE_AGE_SECONDS)
             THEN Result("PriceSignatureExpired", w)
        ELSE IF ~(current_price > 0) THEN Result("ZeroPrice", w)
        ELSE IF ~(price_deviation(a.approved_price, price) <= MAX_PRICE_DEVIATION_CREATE_BPS)
             THEN Result("PriceDeviationTooHigh", w)
        ELSE IF ~(collateral_value >= MinCollateralValue)
             THEN Result("CollateralValueTooLow", w)
        ELSE IF sol_loan_amount < tc.min_loan_amount THEN Result("LoanAmountTooLow", w)
        ELSE IF sol_loan_amount > tc.max_loan_amount THEN Result("LoanAmountTooHigh", w)
        ELSE IF treasury_balance < sol_loan_amount
             THEN Result("InsufficientTreasuryBalance", w)
        ELSE IF ~(sol_loan_amount <= max_single_loan(treasury_balance))
             THEN Result("SingleLoanTooLarge", w)
        ELSE IF ~(new_token_exposure <= max_token_exposure(treasury_balance))
             THEN Result("TokenExposureTooHigh", w)
        ELSE IF ~(sol_loan_amount >= MinCollateralValue) THEN Result("LoanAmountTooLow", w)
        ELSE IF liq.err # "Ok" THEN Result(liq.err, w)
        ELSE Result("Ok", ReentrancyGuard_exit(
                 create_loan_apply(w, a, clock, sol_loan_amount, liq.v)))

\* The create_loan instruction: account constraints, then the handler.
create_loan(w, a, clock, price) ==
    LET c == CreateLoan_accounts(w, a)
    IN  IF c # "Ok" THEN Result(c, w) ELSE create_loan_handler(w, a, clock, price)

(* ---------------------------------------------------------------------- *)
(* repay_loan                                                              *)
(* ---------------------------------------------------------------------- *)
\* Seeded fault: the RepayLoan accounts without the loan.status constraint.
RepayLoan_accounts_without_status(w, a) ==
    IF w.protocol_state.paused THEN "ProtocolPaused"
    ELSE IF w.loans[a.loan].borrower # a.signer THEN "Unauthorized"
    ELSE IF w.vault[a.loan].closed THEN "AccountNotInitialized"
    ELSE "Ok"

\* Seeded fault: the RepayLoan accounts without the borrower constraint.
RepayLoan_accounts_any_signer(w, a) ==
    IF w.protocol_state.paused THEN "ProtocolPaused"
    ELSE IF w.loans[a.loan].status # "Active" THEN "LoanAlreadyRepaid"
    ELSE IF w.vault[a.loan].closed THEN "AccountNotInitialized"
    ELSE "Ok"

\* The constraints of the RepayLoan accounts, in declaration order.
RepayLoan_accounts(w, a) ==
    IF w.protocol_state.paused THEN "ProtocolPaused"
    ELSE IF w.loans[a.loan].status # "Active" THEN "LoanAlreadyRepaid"
    ELSE IF w.loans[a.loan].borrower # a.signer THEN "Unauthorized"
    ELSE IF w.vault[a.loan].closed THEN "AccountNotInitialized"
    ELSE "Ok"

protocol_fee_of(sol_borrowed) == mul_div(sol_borrowed, PROTOCOL_FEE_BPS, BPS_DIVISOR)

\* The three shares of the fee and the dust the treasury share absorbs.
fee_split(protocol_fee) ==
    LET treasury_fee == mul_div(protocol_fee, LOAN_FEE_TREASURY_BPS, BPS_DIVISOR)
        staking_fee == mul_div(protocol_fee, LOAN_FEE_STAKING_BPS, BPS_DIVISOR)
        operations_fee == mul_div(protocol_fee, LOAN_FEE_OPERATIONS_BPS, BPS_DIVISOR)
        total_distributed == treasury_fee + staking_fee + operations_fee
        dust == Max(protocol_fee - total_distributed, 0)
    IN  [treasury_fee_with_dust |-> treasury_fee + dust,
         staking_fee |-> staking_fee,
         operations_fee |-> operations_fee]

\* Seeded fault: the status is left for after the transfers.
repay_mark_status_deferred(w, i) == w

\* "Update loan status BEFORE transfers".
repay_mark_status(w, i) == [w EXCEPT !.loans[i].status = "Repaid"]

\* The four lamport transfers out of the borrower.
repay_transfers(w, i, sol_borrowed, split) ==
    LET b == w.loans[i].borrower
    IN  [w EXCEPT
           !.lamports[b] = @ - sol_borrowed - split.treasury_fee_with_dust
                             - split.staking_fee - split.operations_fee,
           !.lamports["treasury"] = @ + sol_borrowed + split.treasury_fee_with_dust,
           !.lamports["staking_reward_vault"] = @ + split.staking_fee,
           !.lamports["operations_wallet"] = @ + split.operations_fee]

\* token::transfer of the collateral from the vault back to the borrower.
repay_return_collateral(w, i) ==
    LET l == w.loans[i]
    IN  [w EXCEPT !.vault[i].amount = @ - l.collateral_amount,
                  !.token_balance[l.borrower][l.token_mint] = @ + l.collateral_amount]

\* Seeded fault: a repay that leaves the mint's borrowed total alone.
repay_counters_without_token_exposure(w, i, protocol_fee) ==
    LET l == w.loans[i]
    IN  [w EXCEPT
           !.protocol_state.total_sol_borrowed = @ - l.sol_borrowed,
           !.protocol_state.total_fees_earned = @ + protocol_fee,
           !.protocol_state.active_loans_count = @ - 1,
           !.token_config[l.token_mint].active_loans_count = @ - 1,
           !.user_exposure[l.borrower].total_borrowed = @ - l.sol_borrowed,
           !.user_exposure[l.borrower].active_loans_count = @ - 1,
           !.user_exposure[l.borrower].loans_repaid = @ + 1]

\* The SafeMath::sub / add updates of the counters, all operands checked by
\* the caller.
repay_counters(w, i, protocol_fee) ==
    LET l == w.loans[i]
    IN  [w EXCEPT
           !.protocol_state.total_sol_borrowed = @ - l.sol_borrowed,
           !.protocol_state.total_fees_earned = @ + protocol_fee,
           !.protocol_state.active_loans_count = @ - 1,
           !.token_config[l.token_mint].active_loans_count = @ - 1,
           !.token_config[l.token_mint].total_active_borrowed = @ - l.sol_borrowed,
           !.user_exposure[l.borrower].total_borrowed = @ - l.sol_borrowed,
           !.user_exposure[l.borrower].active_loans_count = @ - 1,
           !.user_exposure[l.borrower].loans_repaid = @ + 1]

\* The handler up to its first system_program::transfer.  calls = TRUE: the
\* transfer is issued in world w; otherwise the handler returned err in w.
repay_loan_until_transfers(w0, a) ==
    LET g == ReentrancyGuard_enter(w0)
        w == g.w
        i == a.loan
        sol_borrowed == w.loans[i].sol_borrowed
        total_owed == sol_borrowed + protocol_fee_of(sol_borrowed)
        borrower_balance == w.lamports[a.signer]
    IN  IF g.err # "Ok" THEN [err |-> g.err, w |-> g.w, calls |-> FALSE]
        ELSE IF ~(borrower_balance >= total_owed)
             THEN [err |-> "InsufficientTreasuryBalance", w |-> w, calls |-> FALSE]
        ELSE [err |-> "Ok", w |-> repay_mark_status(w, i), calls |-> TRUE]

repay_loan_handler(w0, a) ==
    LET t == repay_loan_until_transfers(w0, a)
        w == t.w
        i == a.loan
        l == w.loans[i]
        sol_borrowed == l.sol_borrowed
        protocol_fee == protocol_fee_of(sol_borrowed)
        split == fee_split(protocol_fee)
        w1 == repay_transfers(w, i, sol_borrowed, split)
        tc == w.token_config[l.token_mint]
        ue == w.user_exposure[l.borrower]
    IN  IF ~t.calls THEN Result(t.err, t.w)
        ELSE IF w1.vault[i].amount < l.collateral_amount
             THEN Result("TokenTransferFailed", w1)
        ELSE IF w.protocol_state.total_sol_borrowed < sol_borrowed
                \/ w.protocol_state.active_loans_count < 1
                \/ tc.active_loans_count < 1
                \/ tc.total_active_borrowed < sol_borrowed
                \/ ue.total_borrowed < sol_borrowed
                \/ ue.active_loans_count < 1
             THEN Result("MathUnderflow", repay_return_collateral(w1, i))
        ELSE Result("Ok", ReentrancyGuard_exit(
                 repay_counters(repay_return_collateral(w1, i), i, protocol_fee)))

repay_loan(w, a) ==
    LET c == RepayLoan_accounts(w, a)
    IN  IF c # "Ok" THEN Result(c, w) ELSE repay_loan_handler(w, a)

(* ---------------------------------------------------------------------- *)
(* withdraw_treasury, emergency_drain                                      *)
(* ---------------------------------------------------------------------- *)
\* system_program::transfer out of the treasury, signed with its seeds.
treasury_pays(w, to, amount) ==
    [w EXCEPT !.lamports["treasury"] = @ - amount, !.lamports[to] = @ + amount]

withdraw_treasury(w, a) ==
    LET treasury_balance == w.lamports["treasury"]
        reserved_for_loans == w.protocol_state.total_sol_borrowed
        available_balance == treasury_balance - reserved_for_loans
    IN  IF w.protocol_state.admin # a.signer THEN Result("Unauthorized", w)
        ELSE IF treasury_balance < a.amount
             THEN Result("InsufficientTreasuryBalance", w)
        ELSE IF treasury_balance < reserved_for_loans THEN Result("MathUnderflow", w)
        ELSE IF a.amount > available_balance
             THEN Result("InsufficientTreasuryBalance", w)
        ELSE Result("Ok", treasury_pays(w, a.signer, a.amount))

emergency_drain(w, a) ==
    LET treasury_balance == w.lamports["treasury"]
        w1 == [w EXCEPT !.protocol_state.paused = TRUE]
        w2 == IF treasury_balance > 0 THEN treasury_pays(w1, a.signer, treasury_balance)
              ELSE w1
    IN  IF w.protocol_state.admin # a.signer THEN Result("Unauthorized", w)
        ELSE Result("Ok", [w2 EXCEPT !.protocol_state.total_sol_borrowed = 0,
                                     !.protocol_state.total_fees_earned = 0])

(* ---------------------------------------------------------------------- *)
(* liquidate                                                               *)
(* ---------------------------------------------------------------------- *)
\* The constraints of the Liquidate accounts, in declaration order.
Liquidate_accounts(w, a) ==
    IF w.protocol_state.paused THEN "ProtocolPaused"
    ELSE IF w.loans[a.loan].status # "Active" THEN "LoanAlreadyRepaid"
    ELSE IF w.vault[a.loan].closed THEN "AccountNotInitialized"
    ELSE IF a.signer # Liquidator THEN "UnauthorizedLiquidator"
    ELSE "Ok"

expected_sol_value(loan, current_price) ==
    mul_div(loan.collateral_amount, current_price, PRICE_SCALE)

\* Seeded fault: no floor under the caller's minimum output.
min_acceptable_output_absent(loan, current_price) == 0

min_acceptable_output(loan, current_price) ==
    mul_div(expected_sol_value(loan, current_price),
            BPS_DIVISOR - MAX_LIQUIDATION_SLIPPAGE_BPS, BPS_DIVISOR)

\* Seeded fault: a liquidation that records a status outside LoanStatus's
\* three terminal values.
liquidation_reason_unlisted(loan, clock, current_price) == "Liquidated"

liquidation_reason(loan, clock, current_price) ==
    IF is_loan_liquidatable_by_price(loan, current_price)
    THEN "LiquidatedPrice" ELSE "LiquidatedTime"

\* The handler up to the external swap.  swap = TRUE: the swap is invoked in
\* world w; otherwise the handler returned err in world w.
liquidate_until_swap(w0, a, clock, current_price) ==
    LET g == ReentrancyGuard_enter(w0)
        w == g.w
        i == a.loan
        l == w.loans[i]
        pool_type == w.token_config[l.token_mint].pool_type
        liquidatable_by_time == is_loan_liquidatable_by_time(l, clock)
        liquidatable_by_price == is_loan_liquidatable_by_price(l, current_price)
        w1 == [w EXCEPT !.loans[i].status = liquidation_reason(l, clock, current_price)]
        stop(e, x) == [err |-> e, w |-> x, swap |-> FALSE, sol_before |-> 0]
    IN  IF g.err # "Ok" THEN stop(g.err, g.w)
        ELSE IF ~(liquidatable_by_time \/ liquidatable_by_price)
             THEN stop("LoanNotLiquidatable", w)
        ELSE IF ~(a.min_sol_output >= min_acceptable_output(l, current_price))
             THEN stop("SlippageTooHigh", w)
        ELSE IF pool_type = "Pumpfun" THEN stop("FeatureTemporarilyDisabled", w1)
        ELSE IF ~a.jupiter_swap_data THEN stop("MissingJupiterSwapData", w1)
        ELSE IF a.route = "none" THEN stop("MissingJupiterAccounts", w1)
        ELSE IF a.route # "jupiter" THEN stop("InvalidJupiterProgram", w1)
        ELSE [err |-> "Ok", w |-> w1, swap |-> TRUE, sol_before |-> w1.vault[i].lamports]

\* What the invoked swap program does with the vault authority's signature:
\* it takes `sold` tokens out of the vault and pays `proceeds` lamports.
swap_effect(w, i, sold, proceeds) ==
    [w EXCEPT !.vault[i].amount = @ - sold, !.vault[i].lamports = @ + proceeds]

\* Seeded fault: the operations share rounded up.
operations_share_rounded_up(sol_proceeds) ==
    (sol_proceeds * OPERATIONS_SPLIT_BPS + BPS_DIVISOR - 1) \div BPS_DIVISOR

operations_share_of(sol_proceeds) == (sol_proceeds * OPERATIONS_SPLIT_BPS) \div BPS_DIVISOR

\* Split of the proceeds and close of the vault token account.
liquidate_settle(w, i, sol_proceeds) ==
    LET operations_share == operations_share_of(sol_proceeds)
        treasury_share == sol_proceeds - operations_share
    IN  [w EXCEPT !.vault[i].lamports = @ - sol_proceeds,
                  !.lamports["treasury"] = @ + treasury_share,
                  !.lamports["operations_wallet"] = @ + operations_share,
                  !.vault[i].closed = TRUE]

\* Seeded fault: a liquidation that leaves the counters alone.
liquidate_counters_skipped(w, i, treasury_share) == w

liquidate_counters(w, i, treasury_share) ==
    LET l == w.loans[i]
    IN  [w EXCEPT
           !.protocol_state.total_sol_borrowed = @ - l.sol_borrowed,
           !.protocol_state.active_loans_count = @ - 1,
           !.protocol_state.total_fees_earned = @ + treasury_share,
           !.token_config[l.token_mint].active_loans_count = @ - 1,
           !.token_config[l.token_mint].total_active_borrowed = @ - l.sol_borrowed]

\* Seeded fault: realized proceeds accepted whatever they are.
proceeds_unchecked(sol_proceeds, min_sol_output) == TRUE

\* The second slippage check, against the realized proceeds.
proceeds_acceptable(sol_proceeds, min_sol_output) == sol_proceeds >= min_sol_output

\* The handler from the return of the swap to its end.
liquidate_after_swap(w, i, min_sol_output, sol_before) ==
    LET l == w.loans[i]
        sol_after == w.vault[i].lamports
        sol_proceeds == sol_after - sol_before
        treasury_share == sol_proceeds - operations_share_of(sol_proceeds)
        tc == w.token_config[l.token_mint]
    IN  IF sol_after < sol_before THEN Result("MathUnderflow", w)
        ELSE IF ~proceeds_acceptable(sol_proceeds, min_sol_output)
             THEN Result("SlippageExceeded", w)
        ELSE IF w.vault[i].amount # 0 THEN Result("CloseAccountFailed", w)
        ELSE IF w.protocol_state.total_sol_borrowed < l.sol_borrowed
                \/ w.protocol_state.active_loans_count < 1
                \/ tc.active_loans_count < 1
                \/ tc.total_active_borrowed < l.sol_borrowed
             THEN Result("MathUnderflow", liquidate_settle(w, i, sol_proceeds))
        ELSE Result("Ok", ReentrancyGuard_exit(
                 liquidate_counters(liquidate_settle(w, i, sol_proceeds), i,
                                    treasury_share)))

\* Account constraints, then the handler up to the swap.
liquidate_begin(w, a, clock, current_price) ==
    LET c == Liquidate_accounts(w, a)
    IN  IF c # "Ok" THEN [err |-> c, w |-> w, swap |-> FALSE, sol_before |-> 0]
        ELSE liquidate_until_swap(w, a, clock, current_price)

\* The whole instruction when the swap returns Ok having sold `sold` tokens
\* for `proceeds` lamports.
liquidate(w, a, clock, current_price, sold, proceeds) ==
    LET b == liquidate_begin(w, a, clock, current_price)
    IN  IF ~b.swap THEN Result(b.err, b.w)
        ELSE liquidate_after_swap(swap_effect(b.w, a.loan, sold, proceeds), a.loan,
                                  a.min_sol_output, b.sol_before)

(* ---------------------------------------------------------------------- *)
(* Inputs                                                                  *)
(* ---------------------------------------------------------------------- *)
MaxPrice == 5 * PRICE_SCALE

\* Prices the pool of mint t can show: the base price and, for every loan on
\* a Raydium mint t, its liquidation price and the next price above it.
PriceChoices(t) ==
    {BasePrice} \cup
    {p \in UNION {{loans[i].liquidation_price, loans[i].liquidation_price + 1} :
                     i \in {j \in DOMAIN loans : /\ loans[j].token_mint = t
                                                 /\ PoolTypeOf(t) = "Raydium"}} :
        p <= MaxPrice}

\* A well-formed request of borrower b against mint t.
CreateLoanRequest(b, t, c) ==
    [borrower |-> b, token |-> t, collateral_amount |-> c,
     duration_seconds |-> MIN_LOAN_DURATION, approved_price |-> pool_price[t],
     price_timestamp |-> now, price_authority |-> PriceAuthority]

\* The well-formed requests and, for one of them, each way of being malformed
\* or out of range.
CreateLoanArgs ==
    {CreateLoanRequest(b, t, ValidCollateral) : b \in Borrowers, t \in DOMAIN token_config}
    \cup {CreateLoanRequest("alice", "RAY", c) : c \in CollateralChoices}
    \cup {[CreateLoanRequest("alice", "RAY", ValidCollateral) EXCEPT
              !.duration_seconds = MIN_LOAN_DURATION - 1],
          [CreateLoanRequest("alice", "RAY", ValidCollateral) EXCEPT
              !.approved_price = 0],
          [CreateLoanRequest("alice", "RAY", ValidCollateral) EXCEPT
              !.approved_price = 2 * pool_price["RAY"]],
          [CreateLoanRequest("alice", "RAY", ValidCollateral) EXCEPT
              !.price_timestamp = now - (MAX_PRICE_SIGNATURE_AGE_SECONDS + 1)],
          [CreateLoanRequest("alice", "RAY", ValidCollateral) EXCEPT
              !.price_authority = "alice"]}

RepayLoanArgs == [signer : Borrowers, loan : DOMAIN loans]

\* The slippage floor of loan i at the pool price.
SlippageFloor(i) == min_acceptable_output(loans[i], pool_price[loans[i].token_mint])

\* A well-formed liquidation of loan i by the authorized liquidator.
LiquidateRequest(i) ==
    [signer |-> Liquidator, loan |-> i, min_sol_output |-> SlippageFloor(i),
     jupiter_swap_data |-> TRUE, route |-> "jupiter"]

\* The well-formed liquidations and each way of being malformed.
LiquidateArgs ==
    UNION {{LiquidateRequest(i),
            [LiquidateRequest(i) EXCEPT !.signer = "alice"],
            [LiquidateRequest(i) EXCEPT !.min_sol_output = Max(SlippageFloor(i) - 1, 0)],
            [LiquidateRequest(i) EXCEPT !.jupiter_swap_data = FALSE],
            [LiquidateRequest(i) EXCEPT !.route = "none"],
            [LiquidateRequest(i) EXCEPT !.route = "other"]} : i \in DOMAIN loans}

\* What the swap can pay for the collateral of the loan in flight.
ProceedsChoices ==
    IF inflight = NoTx THEN {}
    ELSE {Max(inflight.min_sol_output - 1, 0), inflight.min_sol_output}

\* How much of the vault the swap can take: all of it or none.
SoldChoices ==
    IF inflight = NoTx THEN {}
    ELSE {0, inflight.w.vault[inflight.loan].amount}

(* ---------------------------------------------------------------------- *)
(* Host: commit on Ok, roll back on error                                  *)
(* ---------------------------------------------------------------------- *)
\* Seeded fault: a host that keeps the writes of a failed instruction.
Committed_without_rollback(r) == r.w

\* The world the host leaves behind an instruction that returned r.
Committed(r) == IF r.err = "Ok" THEN r.w ELSE World

Install(w) ==
    /\ protocol_state' = w.protocol_state
    /\ token_config' = w.token_config
    /\ loans' = w.loans
    /\ vault' = w.vault
    /\ lamports' = w.lamports
    /\ token_balance' = w.token_balance
    /\ user_exposure' = w.user_exposure

Step(op, err, loan, nested) ==
    [op |-> op, err |-> err, loan |-> loan, nested |-> nested]

(* ---------------------------------------------------------------------- *)
(* Admin: two-step transfer, update_fees                                   *)
(* ---------------------------------------------------------------------- *)
\* initiate_admin_transfer under AdminControl; a is [signer, new_admin].
initiate_admin_transfer(w, a, clock) ==
    IF w.protocol_state.admin # a.signer THEN Result("Unauthorized", w)
    ELSE IF ~(a.new_admin # "default") THEN Result("InvalidAdminAddress", w)
    ELSE IF ~(a.new_admin # w.protocol_state.admin) THEN Result("InvalidAdminAddress", w)
    ELSE Result("Ok", [w EXCEPT !.protocol_state.pending_admin = a.new_admin,
                                !.protocol_state.admin_transfer_timestamp = clock])

accept_admin_transfer_without_delay(w, a, clock) ==
    IF w.protocol_state.pending_admin # a.signer THEN Result("Unauthorized", w)
    ELSE Result("Ok", [w EXCEPT !.protocol_state.admin = w.protocol_state.pending_admin,
                                !.protocol_state.pending_admin = "default",
                                !.protocol_state.admin_transfer_timestamp = 0])

\* accept_admin_transfer under AcceptAdminTransfer; a is [signer].
accept_admin_transfer(w, a, clock) ==
    LET time_elapsed == clock - w.protocol_state.admin_transfer_timestamp
    IN  IF w.protocol_state.pending_admin # a.signer THEN Result("Unauthorized", w)
        ELSE IF ~(time_elapsed >= ADMIN_TRANSFER_DELAY)
             THEN Result("AdminTransferTooEarly", w)
        ELSE Result("Ok", [w EXCEPT
                             !.protocol_state.admin = w.protocol_state.pending_admin,
                             !.protocol_state.pending_admin = "default",
                             !.protocol_state.admin_transfer_timestamp = 0])

\* cancel_admin_transfer under AdminControl; a is [signer].
cancel_admin_transfer(w, a) ==
    IF w.protocol_state.admin # a.signer THEN Result("Unauthorized", w)
    ELSE IF ~(w.protocol_state.pending_admin # "default")
         THEN Result("NoPendingAdminTransfer", w)
    ELSE Result("Ok", [w EXCEPT !.protocol_state.pending_admin = "default",
                                !.protocol_state.admin_transfer_timestamp = 0])

\* An Option<u16> argument: NoValue is None.
NoValue == -1
unwrap_or(option, default) == IF option = NoValue THEN default ELSE option

\* treasury + buyback + operations in u16.  The sum is made with the plain
\* operator: a build with overflow checks panics when it passes 65535, one
\* without them wraps.  [panic, v]
u16_sum(treasury, buyback, operations, build) ==
    LET sum == treasury + buyback + operations
    IN  IF sum < U16_MODULUS THEN [panic |-> FALSE, v |-> sum]
        ELSE IF build = "overflow_checks" THEN [panic |-> TRUE, v |-> 0]
        ELSE [panic |-> FALSE, v |-> sum % U16_MODULUS]

\* update_fees under UpdateFees; a is [signer, protocol_fee_bps,
\* treasury_fee_bps, buyback_fee_bps, operations_fee_bps].
update_fees(w0, a, build) ==
    LET w == IF a.protocol_fee_bps = NoValue THEN w0
             ELSE [w0 EXCEPT !.protocol_state.protocol_fee_bps = a.protocol_fee_bps]
        treasury == unwrap_or(a.treasury_fee_bps, w.protocol_state.treasury_fee_bps)
        buyback == unwrap_or(a.buyback_fee_bps, w.protocol_state.buyback_fee_bps)
        operations == unwrap_or(a.operations_fee_bps, w.protocol_state.operations_fee_bps)
        sum == u16_sum(treasury, buyback, operations, build)
    IN  IF w0.protocol_state.admin # a.signer THEN Result("Unauthorized", w0)
        ELSE IF a.protocol_fee_bps # NoValue /\ ~(a.protocol_fee_bps <= MAX_PROTOCOL_FEE_BPS)
             THEN Result("InvalidFeeConfiguration", w0)
        ELSE IF sum.panic THEN Result("ProgramFailedToComplete", w)
        ELSE IF ~(sum.v = FEE_SPLIT_TOTAL_BPS) THEN Result("InvalidFeeConfiguration", w)
        ELSE Result("Ok", [w EXCEPT !.protocol_state.treasury_fee_bps = treasury,
                                    !.protocol_state.buyback_fee_bps = buyback,
                                    !.protocol_state.operations_fee_bps = operations])

(* ---------------------------------------------------------------------- *)
(* Staking: state                                                          *)
(* ---------------------------------------------------------------------- *)
\* Staked token amounts are counted in units of StakeUnit base units and the
\* lamports of the staking instructions one by one, so that REWARD_PRECISION
\* (10^12) enters every quotient as REWARD_PRECISION / StakeUnit.
StakeUnit == 10 ^ 9
REWARD_PRECISION_PER_STAKE_UNIT == 1000
MIN_EPOCH_DURATION == 60
\* distribute_rewards does nothing below this many lamports.
MIN_DISTRIBUTABLE_REWARDS == 1000

Stakers == {"alice", "bob"}
Depositor == "carol"
StakingAuthority == "admin"

\* The accounts a staking instruction reads and writes.
StakingWorld == [staking_pool |-> staking_pool, user_stake |-> user_stake,
                 staking_tokens |-> staking_tokens, lamports |-> lamports]

\* A UserStake account that init_if_needed has not created yet: every field
\* reads zero.
NoUserStake ==
    [exists |-> FALSE, owner |-> "default", staked_amount |-> 0,
     stake_start_epoch |-> 0, reward_per_token_snapshot |-> 0,
     snapshot_initialized |-> FALSE, pending_rewards |-> 0,
     reward_per_token_paid |-> 0, last_rewarded_epoch |-> 0,
     total_rewards_received |-> 0]

\* The StakingPool initialize_staking leaves behind at time clock; the fields
\* it does not write keep the zero of the freshly created account.
InitStakingPool(epoch_duration, clock) ==
    [current_epoch |-> 1, epoch_duration |-> epoch_duration,
     epoch_start_time |-> clock, total_staked |-> 0,
     current_epoch_eligible_stake |-> 0, current_epoch_rewards |-> 0,
     last_epoch_rewards |-> 0, last_epoch_eligible_stake |-> 0,
     last_epoch_distributed |-> 0, total_rewards_distributed |-> 0,
     total_rewards_deposited |-> 0, total_epochs_completed |-> 0,
     paused |-> FALSE, reward_per_token_accumulated |-> 0,
     reward_per_token_stored |-> 0, last_update_time |-> 0,
     target_pool_balance |-> 0, base_emission_rate |-> 0,
     min_emission_rate |-> 0, max_emission_rate |-> 0]

(* ---------------------------------------------------------------------- *)
(* Staking: stake, unstake, claim_rewards, deposit_rewards                 *)
(* ---------------------------------------------------------------------- *)
calculate_emission_rate(pool, reward_vault_balance) ==
    IF pool.target_pool_balance = 0 THEN pool.base_emission_rate
    ELSE Max(pool.min_emission_rate,
             Min(pool.max_emission_rate,
                 (pool.base_emission_rate * reward_vault_balance)
                    \div pool.target_pool_balance))

calculate_reward_per_token(pool, reward_vault_balance, current_time) ==
    LET time_elapsed == current_time - pool.last_update_time
        rewards_to_distribute ==
            calculate_emission_rate(pool, reward_vault_balance) * time_elapsed
    IN  IF pool.total_staked = 0 THEN pool.reward_per_token_stored
        ELSE IF time_elapsed = 0 THEN pool.reward_per_token_stored
        ELSE pool.reward_per_token_stored
             + (rewards_to_distribute * REWARD_PRECISION_PER_STAKE_UNIT)
                  \div pool.total_staked

\* calculate_pending_rewards of stake.rs, unstake.rs and claim_rewards.rs;
\* the callers hold current_reward_per_token >= reward_per_token_paid.
emission_pending_rewards(us, current_reward_per_token) ==
    (us.staked_amount * (current_reward_per_token - us.reward_per_token_paid))
       \div REWARD_PRECISION_PER_STAKE_UNIT

\* The update of the global reward state that opens the three handlers.
update_reward_state(w, clock) ==
    [w EXCEPT !.staking_pool.reward_per_token_stored =
                  calculate_reward_per_token(w.staking_pool,
                      w.lamports["staking_reward_vault"], clock),
              !.staking_pool.last_update_time = clock]

\* [signer, amount]
stake(w0, a, clock) ==
    LET u == a.signer
        w == update_reward_state(w0, clock)
        rpt == w.staking_pool.reward_per_token_stored
        us == w0.user_stake[u]
        pending == IF us.staked_amount > 0 THEN emission_pending_rewards(us, rpt) ELSE 0
        created == IF us.owner = "default"
                   THEN [us EXCEPT !.exists = TRUE, !.owner = u]
                   ELSE [us EXCEPT !.exists = TRUE]
        w1 == [w EXCEPT
                 !.user_stake[u] =
                     [created EXCEPT !.pending_rewards = @ + pending,
                                     !.staked_amount = @ + a.amount,
                                     !.reward_per_token_paid = rpt],
                 !.staking_pool.total_staked = @ + a.amount]
    IN  IF w0.staking_pool.paused THEN Result("StakingPaused", w0)
        ELSE IF ~(a.amount > 0) THEN Result("InvalidLoanAmount", w0)
        ELSE IF w1.staking_tokens[u] < a.amount THEN Result("TokenTransferFailed", w1)
        ELSE Result("Ok", [w1 EXCEPT !.staking_tokens[u] = @ - a.amount,
                                     !.staking_tokens["staking_vault"] = @ + a.amount])

\* [signer, amount]
unstake(w0, a, clock) ==
    LET u == a.signer
        w == update_reward_state(w0, clock)
        rpt == w.staking_pool.reward_per_token_stored
        us == w0.user_stake[u]
        pending == emission_pending_rewards(us, rpt)
        w1 == [w EXCEPT
                 !.user_stake[u].pending_rewards = @ + pending,
                 !.user_stake[u].reward_per_token_paid = rpt,
                 !.user_stake[u].staked_amount = @ - a.amount,
                 !.staking_pool.total_staked = @ - a.amount]
    IN  IF ~us.exists THEN Result("AccountNotInitialized", w0)
        ELSE IF us.owner # u THEN Result("Unauthorized", w0)
        ELSE IF ~(a.amount > 0) THEN Result("InvalidLoanAmount", w0)
        ELSE IF ~(us.staked_amount >= a.amount)
             THEN Result("InsufficientStakeBalance", w0)
        ELSE IF w0.staking_pool.total_staked < a.amount THEN Result("MathUnderflow", w)
        ELSE Result("Ok", [w1 EXCEPT !.staking_tokens[u] = @ + a.amount,
                                     !.staking_tokens["staking_vault"] = @ - a.amount])

\* [signer]
claim_rewards(w0, a, clock) ==
    LET u == a.signer
        w == update_reward_state(w0, clock)
        rpt == w.staking_pool.reward_per_token_stored
        us == w0.user_stake[u]
        new_rewards == emission_pending_rewards(us, rpt)
        total_rewards == us.pending_rewards + new_rewards
    IN  IF ~us.exists THEN Result("AccountNotInitialized", w0)
        ELSE IF us.owner # u THEN Result("Unauthorized", w0)
        ELSE IF ~(total_rewards > 0) THEN Result("NoRewardsToClaim", w)
        ELSE IF ~(w.lamports["staking_reward_vault"] >= total_rewards)
             THEN Result("InsufficientRewardBalance", w)
        ELSE Result("Ok",
                 [w EXCEPT
                    !.user_stake[u].pending_rewards = 0,
                    !.user_stake[u].reward_per_token_paid = rpt,
                    !.staking_pool.total_rewards_distributed = @ + total_rewards,
                    !.lamports["staking_reward_vault"] = @ - total_rewards,
                    !.lamports[u] = @ + total_rewards])

\* [signer, amount]
deposit_rewards(w, a) ==
    IF ~(a.amount > 0) THEN Result("InvalidAmount", w)
    ELSE IF w.lamports[a.signer] < a.amount THEN Result("InsufficientFunds", w)
    ELSE Result("Ok",
             [w EXCEPT
                !.lamports[a.signer] = @ - a.amount,
                !.lamports["staking_reward_vault"] = @ + a.amount,
                !.staking_pool.current_epoch_rewards = @ + a.amount,
                !.staking_pool.total_rewards_deposited = @ + a.amount])

(* ---------------------------------------------------------------------- *)
(* Staking: epochs                                                         *)
(* ---------------------------------------------------------------------- *)
\* What ending an epoch adds to reward_per_token_accumulated.
reward_increment(pool) ==
    (pool.current_epoch_rewards * REWARD_PRECISION_PER_STAKE_UNIT)
       \div pool.current_epoch_eligible_stake

advance_single_epoch(pool) ==
    LET settled ==
            IF pool.current_epoch_eligible_stake > 0 /\ pool.current_epoch_rewards > 0
            THEN [pool EXCEPT !.reward_per_token_accumulated = @ + reward_increment(pool)]
            ELSE IF pool.current_epoch_rewards > 0 THEN pool
            ELSE [pool EXCEPT !.current_epoch_rewards = 0]
        moved == [settled EXCEPT
                    !.current_epoch = @ + 1,
                    !.epoch_start_time = @ + pool.epoch_duration,
                    !.total_epochs_completed = @ + 1,
                    !.current_epoch_eligible_stake = pool.total_staked]
    IN  IF moved.current_epoch_eligible_stake > 0
        THEN [moved EXCEPT !.current_epoch_rewards = 0]
        ELSE moved

RECURSIVE maybe_advance_epoch(_, _)
maybe_advance_epoch(pool, current_time) ==
    IF current_time >= pool.epoch_start_time + pool.epoch_duration
    THEN maybe_advance_epoch(advance_single_epoch(pool), current_time)
    ELSE pool

\* The epoch rewards that maybe_advance_epoch(pool, current_time) puts into
\* the accumulator.
RECURSIVE rewards_settled(_, _)
rewards_settled(pool, current_time) ==
    IF current_time >= pool.epoch_start_time + pool.epoch_duration
    THEN (IF pool.current_epoch_eligible_stake > 0 /\ pool.current_epoch_rewards > 0
          THEN pool.current_epoch_rewards ELSE 0)
         + rewards_settled(advance_single_epoch(pool), current_time)
    ELSE 0

maybe_initialize_user_snapshot_ahead(us, pool) ==
    IF ~us.snapshot_initialized /\ pool.current_epoch > us.stake_start_epoch
    THEN [us EXCEPT !.reward_per_token_snapshot =
                       pool.reward_per_token_accumulated
                       + pool.current_epoch_rewards * REWARD_PRECISION_PER_STAKE_UNIT,
                    !.snapshot_initialized = TRUE]
    ELSE us

maybe_initialize_user_snapshot(us, pool) ==
    IF ~us.snapshot_initialized /\ pool.current_epoch > us.stake_start_epoch
    THEN [us EXCEPT !.reward_per_token_snapshot = pool.reward_per_token_accumulated,
                    !.snapshot_initialized = TRUE]
    ELSE us

\* [err, v]
calculate_pending_rewards(us, pool) ==
    IF ~us.snapshot_initialized THEN [err |-> "Ok", v |-> 0]
    ELSE IF us.staked_amount = 0 THEN [err |-> "Ok", v |-> 0]
    ELSE IF pool.reward_per_token_accumulated < us.reward_per_token_snapshot
         THEN [err |-> "MathUnderflow", v |-> 0]
    ELSE [err |-> "Ok",
          v |-> (us.staked_amount
                   * (pool.reward_per_token_accumulated - us.reward_per_token_snapshot))
                  \div REWARD_PRECISION_PER_STAKE_UNIT]

\* The permissionless advance_epoch.
advance_epoch(w, clock) ==
    LET pool == w.staking_pool
        epoch_end_time == pool.epoch_start_time + pool.epoch_duration
    IN  IF ~(clock >= epoch_end_time) THEN Result("EpochNotEnded", w)
        ELSE Result("Ok",
                 [w EXCEPT !.staking_pool =
                     [pool EXCEPT
                        !.last_epoch_rewards = pool.current_epoch_rewards,
                        !.last_epoch_eligible_stake = pool.current_epoch_eligible_stake,
                        !.last_epoch_distributed = 0,
                        !.current_epoch = @ + 1,
                        !.epoch_start_time = epoch_end_time,
                        !.total_epochs_completed = @ + 1,
                        !.current_epoch_rewards = 0,
                        !.current_epoch_eligible_stake = pool.total_staked]])

\* [signer]
force_advance_epoch(w, a, clock) ==
    IF a.signer # StakingAuthority THEN Result("Unauthorized", w)
    ELSE Result("Ok",
             [w EXCEPT !.staking_pool =
                 [w.staking_pool EXCEPT
                    !.current_epoch = @ + 1,
                    !.epoch_start_time = clock,
                    !.total_epochs_completed = @ + 1,
                    !.current_epoch_eligible_stake = w.staking_pool.total_staked,
                    !.current_epoch_rewards = 0]])

\* [signer, base_emission_rate]: the other arguments None.
update_staking_config(w, a) ==
    IF a.signer # StakingAuthority THEN Result("Unauthorized", w)
    ELSE Result("Ok", [w EXCEPT !.staking_pool.base_emission_rate = a.base_emission_rate])

(* ---------------------------------------------------------------------- *)
(* Staking: distribute_rewards                                             *)
(* ---------------------------------------------------------------------- *)
\* A pair of remaining accounts is [record, wallet]: record names the account
\* passed as the UserStake (the UserStake PDA of a wallet, the StakingPool
\* account, or "forged", an account of another program), wallet the account
\* to pay.
program_owned(w, record) ==
    \/ record = "staking_pool"
    \/ record \in Stakers /\ w.user_stake[record].exists

validate_pair_without_pda_check(w, pair) ==
    IF ~program_owned(w, pair.record) THEN "InvalidAccountOwner"
    ELSE IF pair.record \notin Stakers THEN "InvalidDiscriminator"
    ELSE IF w.user_stake[pair.record].owner # pair.wallet THEN "InvalidStakeOwner"
    ELSE "Ok"

\* The four validations of a pair, in order.
validate_pair(w, pair) ==
    IF ~program_owned(w, pair.record) THEN "InvalidAccountOwner"
    ELSE IF pair.record \notin Stakers THEN "InvalidDiscriminator"
    ELSE IF pair.record # pair.wallet THEN "InvalidPDA"
    ELSE IF w.user_stake[pair.record].owner # pair.wallet THEN "InvalidStakeOwner"
    ELSE "Ok"

not_eligible_ignoring_last_rewarded(us, distributable_epoch) ==
    \/ us.staked_amount = 0
    \/ us.stake_start_epoch >= distributable_epoch

\* The record is passed over for the distributable epoch.
not_eligible(us, distributable_epoch) ==
    \/ us.staked_amount = 0
    \/ us.stake_start_epoch >= distributable_epoch
    \/ us.last_rewarded_epoch >= distributable_epoch

user_share(us, rewards_pool, eligible_stake) ==
    (us.staked_amount * rewards_pool) \div eligible_stake

stop_distributing_with_error(w, total) ==
    [err |-> "InsufficientRewardBalance", w |-> w, total |-> total]

\* The vault cannot pay the next share: the loop is left and the handler
\* goes on to its end.  [err, w, total]
stop_distributing(w, total) == [err |-> "Ok", w |-> w, total |-> total]

\* The loop over the pairs from the i-th on; total is
\* total_distributed_this_call.  [err, w, total]
RECURSIVE distribute_pairs(_, _, _, _, _, _, _)
distribute_pairs(w, batch, i, rewards_pool, eligible_stake, distributable_epoch, total) ==
    IF i > Len(batch) THEN [err |-> "Ok", w |-> w, total |-> total]
    ELSE
      LET pair == batch[i]
          v == validate_pair(w, pair)
          us == w.user_stake[pair.record]
          share == user_share(us, rewards_pool, eligible_stake)
          paid == [w EXCEPT
                     !.user_stake[pair.record].last_rewarded_epoch = distributable_epoch,
                     !.user_stake[pair.record].total_rewards_received = @ + share,
                     !.lamports["staking_reward_vault"] = @ - share,
                     !.lamports[pair.wallet] = @ + share]
      IN  IF v # "Ok" THEN [err |-> v, w |-> w, total |-> total]
          ELSE IF not_eligible(us, distributable_epoch) \/ share = 0
               THEN distribute_pairs(w, batch, i + 1, rewards_pool, eligible_stake,
                                     distributable_epoch, total)
          ELSE IF w.lamports["staking_reward_vault"] < share
               THEN stop_distributing(w, total)
          ELSE distribute_pairs(paid, batch, i + 1, rewards_pool, eligible_stake,
                                distributable_epoch, total + share)

\* batch: the remaining accounts, as a sequence of pairs.
distribute_rewards(w, batch) ==
    LET pool == w.staking_pool
        distributable_epoch == Max(pool.current_epoch - 1, 0)
        vault_balance == w.lamports["staking_reward_vault"]
        rewards_pool == Min(pool.last_epoch_rewards, vault_balance)
        r == distribute_pairs(w, batch, 1, rewards_pool, pool.last_epoch_eligible_stake,
                              distributable_epoch, 0)
    IN  IF ~(pool.last_epoch_rewards > 0) THEN Result("NoRewardsToClaim", w)
        ELSE IF ~(pool.last_epoch_eligible_stake > 0) THEN Result("NoEligibleStakers", w)
        ELSE IF ~(Len(batch) > 0) THEN Result("InvalidAccountPairs", w)
        ELSE IF rewards_pool < MIN_DISTRIBUTABLE_REWARDS THEN Result("Ok", w)
        ELSE IF r.err # "Ok" THEN Result(r.err, r.w)
        ELSE Result("Ok", [r.w EXCEPT
                              !.staking_pool.last_epoch_distributed = @ + r.total,
                              !.staking_pool.total_rewards_distributed = @ + r.total])

(* ---------------------------------------------------------------------- *)
(* Initial state                                                           *)
(* ---------------------------------------------------------------------- *)
FreshExposure == [total_borrowed |-> 0, active_loans_count |-> 0, loans_repaid |-> 0]
TrackedExposure == [total_borrowed |-> PriorExposure, active_loans_count |-> PriorExposure,
                    loans_repaid |-> 0]

InitTokenConfig(t) ==
    [enabled |-> TRUE, blacklisted |-> FALSE, pool_type |-> PoolTypeOf(t),
     ltv_bps |-> LTV_BRONZE_BPS, min_loan_amount |-> MinLoanAmount,
     max_loan_amount |-> MaxLoanAmount, active_loans_count |-> 0,
     total_volume |-> 0, total_active_borrowed |-> 0]

InitProtocolState ==
    [paused |-> FALSE, reentrancy_guard |-> FALSE, total_loans_created |-> 0,
     total_sol_borrowed |-> 0, total_fees_earned |-> 0, active_loans_count |-> 0,
     protocol_fee_bps |-> INITIAL_PROTOCOL_FEE_BPS,
     treasury_fee_bps |-> INITIAL_TREASURY_FEE_BPS,
     buyback_fee_bps |-> INITIAL_BUYBACK_FEE_BPS,
     operations_fee_bps |-> INITIAL_OPERATIONS_FEE_BPS,
     admin |-> ProtocolAdmin, pending_admin |-> "default",
     admin_transfer_timestamp |-> 0]

Init ==
    /\ protocol_state = InitProtocolState
    /\ token_config = [t \in Tokens |-> InitTokenConfig(t)]
    /\ loans = <<>>
    /\ vault = <<>>
    /\ lamports = [x \in {"treasury", "operations_wallet", "staking_reward_vault",
                           ProtocolAdmin} \cup Borrowers |->
                     IF x = "treasury" THEN InitialTreasury
                     ELSE IF x \in {"alice", "bob"} THEN InitialBorrowerLamports
                     ELSE 0]
    /\ token_balance = [b \in Borrowers |-> [t \in Tokens |-> InitialTokenBalance]]
    /\ user_exposure = [b \in Borrowers |->
                          IF b = "bob" THEN FreshExposure ELSE TrackedExposure]
    /\ pool_price = [t \in Tokens |-> BasePrice]
    /\ now = 0
    /\ inflight = NoTx
    /\ last = Step("init", "Ok", 0, FALSE)
    /\ staking_pool = InitStakingPool(MIN_EPOCH_DURATION, 0)
    /\ user_stake = [u \in Stakers |-> NoUserStake]
    /\ staking_tokens = [x \in Stakers \cup {"staking_vault"} |-> 0]

(* ---------------------------------------------------------------------- *)
(* Actions                                                                 *)
(* ---------------------------------------------------------------------- *)
\* create_loan, followed while the program holds fewer than max loans.
CreateLoanUpTo(a, max) ==
    /\ inflight = NoTx
    /\ LET r == create_loan(World, a, now, pool_price[a.token])
       IN  /\ r.err = "Ok" => Len(loans) < max
           /\ Install(Committed(r))
           /\ last' = Step("create_loan", r.err,
                           IF r.err = "Ok" THEN Len(r.w.loans) ELSE 0, FALSE)
    /\ UNCHANGED <<pool_price, now, inflight>>
    /\ UNCHANGED staking_vars

RepayLoan(a) ==
    /\ inflight = NoTx
    /\ LET r == repay_loan(World, a)
       IN  /\ Install(Committed(r))
           /\ last' = Step("repay_loan", r.err, a.loan, FALSE)
    /\ UNCHANGED <<pool_price, now, inflight>>
    /\ UNCHANGED staking_vars

CreateLoan(a) == CreateLoanUpTo(a, MaxLoans)

\* liquidate from its entry to its return or to the invocation of the swap.
Liquidate(a) ==
    /\ inflight = NoTx
    /\ LET r == liquidate_begin(World, a, now, pool_price[loans[a.loan].token_mint])
       IN  /\ inflight' = IF r.swap
                          THEN [op |-> "liquidate", loan |-> a.loan,
                                min_sol_output |-> a.min_sol_output,
                                sol_before |-> r.sol_before, w |-> r.w]
                          ELSE NoTx
           /\ Install(IF r.swap THEN World ELSE Committed(Result(r.err, r.w)))
           /\ last' = Step("liquidate", IF r.swap THEN "Swapping" ELSE r.err,
                           a.loan, FALSE)
    /\ UNCHANGED <<pool_price, now>>
    /\ UNCHANGED staking_vars

\* The swap returns Ok having sold `sold` tokens for `proceeds` lamports, and
\* liquidate runs to its end.
SwapReturns(sold, proceeds) ==
    /\ inflight # NoTx
    /\ LET i == inflight.loan
           r == liquidate_after_swap(swap_effect(inflight.w, i, sold, proceeds), i,
                                     inflight.min_sol_output, inflight.sol_before)
       IN  /\ Install(Committed(r))
           /\ last' = Step("liquidate", r.err, i, FALSE)
    /\ inflight' = NoTx
    /\ UNCHANGED <<pool_price, now>>
    /\ UNCHANGED staking_vars

\* The swap returns an error, which liquidate propagates.
SwapFails ==
    /\ inflight # NoTx
    /\ last' = Step("liquidate", "SwapFailed", inflight.loan, FALSE)
    /\ inflight' = NoTx
    /\ UNCHANGED <<protocol_state, token_config, loans, vault, lamports,
                   token_balance, user_exposure, pool_price, now>>
    /\ UNCHANGED staking_vars

\* An instruction of this program invoked while liquidate is suspended in the
\* swap: it runs on the world of the instruction in flight.  Its error aborts
\* the transaction; its success leaves its writes in the world in flight.
NestedOutcome(op, r, loan) ==
    /\ inflight' = IF r.err = "Ok" THEN [inflight EXCEPT !.w = r.w] ELSE NoTx
    /\ last' = Step(op, r.err, loan, TRUE)
    /\ UNCHANGED <<protocol_state, token_config, loans, vault, lamports,
                   token_balance, user_exposure, pool_price, now>>
    /\ UNCHANGED staking_vars

NestedCreateLoan(a) ==
    /\ inflight # NoTx
    /\ LET r == create_loan(inflight.w, a, now, pool_price[a.token])
       IN  /\ r.err = "Ok" => Len(inflight.w.loans) < MaxLoans
           /\ NestedOutcome("create_loan", r, 0)

NestedRepayLoan(a) ==
    /\ inflight # NoTx
    /\ NestedOutcome("repay_loan", repay_loan(inflight.w, a), a.loan)

NestedLiquidate(a) ==
    /\ inflight # NoTx
    /\ LET r == liquidate_begin(inflight.w, a, now,
                                pool_price[loans[a.loan].token_mint])
       IN  NestedOutcome("liquidate", Result(r.err, r.w), a.loan)

\* Time passes; it is followed while a loan is running, up to MaxTicks.
Tick ==
    /\ inflight = NoTx
    /\ \E i \in DOMAIN loans : loans[i].status = "Active"
    /\ now < MaxTicks * TickSeconds
    /\ now' = now + TickSeconds
    /\ last' = Step("tick", "Ok", 0, FALSE)
    /\ UNCHANGED <<protocol_state, token_config, loans, vault, lamports,
                   token_balance, user_exposure, pool_price, inflight>>
    /\ UNCHANGED staking_vars

PriceMove(t, p) ==
    /\ inflight = NoTx
    /\ p # pool_price[t]
    /\ pool_price' = [pool_price EXCEPT ![t] = p]
    /\ last' = Step("price", "Ok", 0, FALSE)
    /\ UNCHANGED <<protocol_state, token_config, loans, vault, lamports,
                   token_balance, user_exposure, now, inflight>>
    /\ UNCHANGED staking_vars

Pause ==
    /\ inflight = NoTx
    /\ protocol_state' = [protocol_state EXCEPT !.paused = TRUE]
    /\ last' = Step("pause", "Ok", 0, FALSE)
    /\ UNCHANGED <<token_config, loans, vault, lamports, token_balance,
                   user_exposure, pool_price, now, inflight>>
    /\ UNCHANGED staking_vars

Resume ==
    /\ inflight = NoTx
    /\ protocol_state' = [protocol_state EXCEPT !.paused = FALSE]
    /\ last' = Step("resume", "Ok", 0, FALSE)
    /\ UNCHANGED <<token_config, loans, vault, lamports, token_balance,
                   user_exposure, pool_price, now, inflight>>
    /\ UNCHANGED staking_vars

Next ==
    \/ \E a \in CreateLoanArgs : CreateLoan(a)
    \/ \E a \in RepayLoanArgs : RepayLoan(a)
    \/ \E a \in LiquidateArgs : Liquidate(a)
    \/ \E sold \in SoldChoices, proceeds \in ProceedsChoices :
          SwapReturns(sold, proceeds)
    \/ SwapFails
    \/ \E a \in CreateLoanArgs : NestedCreateLoan(a)
    \/ \E a \in RepayLoanArgs : NestedRepayLoan(a)
    \/ \E a \in LiquidateArgs : NestedLiquidate(a)
    \/ Tick
    \/ \E t \in DOMAIN token_config : \E p \in PriceChoices(t) : PriceMove(t, p)
    \/ Pause
    \/ Resume

Spec == Init /\ [][Next]_vars

\* The lending instructions together with the admin's treasury instructions.
WithdrawAmounts == {InitialTreasury \div 2, InitialTreasury}
TreasuryAdminArgs == [signer : {ProtocolAdmin, "alice"}]
WithdrawTreasuryArgs == [signer : {ProtocolAdmin, "alice"}, amount : WithdrawAmounts]

WithdrawTreasury(a) ==
    /\ inflight = NoTx
    /\ LET r == withdraw_treasury(World, a)
       IN  /\ Install(Committed(r))
           /\ last' = Step("withdraw_treasury", r.err, 0, FALSE)
    /\ UNCHANGED <<pool_price, now, inflight>>
    /\ UNCHANGED staking_vars

EmergencyDrain(a) ==
    /\ inflight = NoTx
    /\ LET r == emergency_drain(World, a)
       IN  /\ Install(Committed(r))
           /\ last' = Step("emergency_drain", r.err, 0, FALSE)
    /\ UNCHANGED <<pool_price, now, inflight>>
    /\ UNCHANGED staking_vars

TreasuryNext ==
    \/ Next
    \/ \E a \in WithdrawTreasuryArgs : WithdrawTreasury(a)
    \/ \E a \in TreasuryAdminArgs : EmergencyDrain(a)

TreasurySpec == Init /\ [][TreasuryNext]_vars

(* ---------------------------------------------------------------------- *)
(* A treasury lent against many mints                                      *)
(* ---------------------------------------------------------------------- *)
SolvencyMints == <<"T1", "T2", "T3", "T4", "T5", "T6", "T7", "T8">>

\* The collateral that borrows the cap of each mint in turn, and the least.
SolvencyPlan == <<32, 28, 26, 23, 21, 19, 17, 15>>

SolvencyInit ==
    /\ protocol_state = InitProtocolState
    /\ token_config = [t \in {SolvencyMints[k] : k \in DOMAIN SolvencyMints} |->
                          InitTokenConfig(t)]
    /\ loans = <<>>
    /\ vault = <<>>
    /\ lamports = [x \in {"treasury", "operations_wallet", "staking_reward_vault"}
                         \cup Borrowers |->
                     IF x = "treasury" THEN InitialTreasury
                     ELSE IF x \in {"alice", "bob"} THEN InitialBorrowerLamports
                     ELSE 0]
    /\ token_balance = [b \in Borrowers |->
                          [t \in DOMAIN token_config |-> InitialTokenBalance]]
    /\ user_exposure = [b \in Borrowers |->
                          IF b = "bob" THEN FreshExposure ELSE TrackedExposure]
    /\ pool_price = [t \in DOMAIN token_config |-> BasePrice]
    /\ now = 0
    /\ inflight = NoTx
    /\ last = Step("init", "Ok", 0, FALSE)
    /\ staking_pool = InitStakingPool(MIN_EPOCH_DURATION, 0)
    /\ user_stake = [u \in Stakers |-> NoUserStake]
    /\ staking_tokens = [x \in Stakers \cup {"staking_vault"} |-> 0]

\* The k-th loan is requested against the k-th mint.
SolvencyArgs ==
    IF Len(loans) < Len(SolvencyPlan)
    THEN {CreateLoanRequest("alice", SolvencyMints[Len(loans) + 1], c) :
             c \in {SolvencyPlan[Len(loans) + 1], SolvencyPlan[Len(SolvencyPlan)]}}
    ELSE {}

SolvencyNext == \E a \in SolvencyArgs : CreateLoanUpTo(a, Len(SolvencyPlan))

SolvencySpec == SolvencyInit /\ [][SolvencyNext]_vars

(* ---------------------------------------------------------------------- *)
(* Staking: inputs, initial state and actions                              *)
(* ---------------------------------------------------------------------- *)
MaxStakingTicks == 2
MaxEpoch == 3
InitialStakingTokens == 1
InitialDepositorLamports == 2000
DepositAmount == 1000
EmissionRate == 1

\* The last staking step: the instruction, what it returned, who signed it
\* (for distribute_rewards, the batch it was given), and the epoch rewards
\* that have gone into reward_per_token_accumulated so far.
StakingStep(op, err, who, added) ==
    [op |-> op, err |-> err, loan |-> 0, nested |-> FALSE, who |-> who,
     added |-> added]

\* The world the host leaves behind a staking instruction that returned r.
StakingCommitted(r) == IF r.err = "Ok" THEN r.w ELSE StakingWorld

StakingInstall(w) ==
    /\ staking_pool' = w.staking_pool
    /\ user_stake' = w.user_stake
    /\ staking_tokens' = w.staking_tokens
    /\ lamports' = w.lamports

StakeArgs ==
    {[signer |-> u, amount |-> 1] : u \in Stakers}

UnstakeArgs ==
    {[signer |-> u, amount |-> 1] : u \in Stakers}
    \cup {[signer |-> "alice", amount |-> InitialStakingTokens + 1]}

ClaimRewardsArgs == {[signer |-> u] : u \in Stakers}

DepositRewardsArgs == {[signer |-> Depositor, amount |-> DepositAmount]}

AdminArgs == {[signer |-> StakingAuthority]}

UpdateStakingConfigArgs ==
    {[signer |-> a.signer, base_emission_rate |-> EmissionRate] : a \in AdminArgs}

\* The pairs a caller of distribute_rewards can pass, and the batches of one
\* or two of them.
DistributePairs ==
    {[record |-> u, wallet |-> u] : u \in Stakers}
    \cup {[record |-> "alice", wallet |-> "bob"],
          [record |-> "forged", wallet |-> "alice"],
          [record |-> "staking_pool", wallet |-> "alice"]}

DistributeBatches ==
    {<<p>> : p \in DistributePairs} \cup {<<p, q>> : p, q \in DistributePairs}

StakingInit ==
    /\ protocol_state = InitProtocolState
    /\ token_config = [t \in Tokens |-> InitTokenConfig(t)]
    /\ loans = <<>>
    /\ vault = <<>>
    /\ lamports = [x \in {"treasury", "operations_wallet", "staking_reward_vault"}
                         \cup Borrowers |->
                     IF x = Depositor THEN InitialDepositorLamports ELSE 0]
    /\ token_balance = [b \in Borrowers |-> [t \in Tokens |-> 0]]
    /\ user_exposure = [b \in Borrowers |-> FreshExposure]
    /\ pool_price = [t \in Tokens |-> BasePrice]
    /\ now = 0
    /\ inflight = NoTx
    /\ last = StakingStep("init", "Ok", "none", 0)
    /\ staking_pool = InitStakingPool(MIN_EPOCH_DURATION, 0)
    /\ user_stake = [u \in Stakers |-> NoUserStake]
    /\ staking_tokens = [x \in Stakers \cup {"staking_vault"} |->
                            IF x \in Stakers THEN InitialStakingTokens ELSE 0]

StakingStepDone(op, r, who) ==
    /\ StakingInstall(StakingCommitted(r))
    /\ last' = StakingStep(op, r.err, who, last.added)
    /\ UNCHANGED <<lending_vars, now>>

Stake(a) == StakingStepDone("stake", stake(StakingWorld, a, now), a.signer)

Unstake(a) == StakingStepDone("unstake", unstake(StakingWorld, a, now), a.signer)

ClaimRewards(a) ==
    StakingStepDone("claim_rewards", claim_rewards(StakingWorld, a, now), a.signer)

DepositRewards(a) ==
    StakingStepDone("deposit_rewards", deposit_rewards(StakingWorld, a), a.signer)

AdvanceEpoch ==
    /\ staking_pool.current_epoch < MaxEpoch
    /\ StakingStepDone("advance_epoch", advance_epoch(StakingWorld, now), "anyone")

ForceAdvanceEpoch(a) ==
    /\ staking_pool.current_epoch < MaxEpoch
    /\ StakingStepDone("force_advance_epoch", force_advance_epoch(StakingWorld, a, now),
                    a.signer)

UpdateStakingConfig(a) ==
    /\ staking_pool.base_emission_rate # a.base_emission_rate
    /\ StakingStepDone("update_staking_config", update_staking_config(StakingWorld, a),
                       a.signer)

DistributeRewards(batch) ==
    StakingStepDone("distribute_rewards", distribute_rewards(StakingWorld, batch),
                    batch)

\* An instruction that brings the pool up to date before it acts.
MaybeAdvanceEpoch ==
    /\ now >= staking_pool.epoch_start_time + staking_pool.epoch_duration
    /\ staking_pool' = maybe_advance_epoch(staking_pool, now)
    /\ last' = StakingStep("maybe_advance_epoch", "Ok", "anyone",
                            last.added + rewards_settled(staking_pool, now))
    /\ UNCHANGED <<lending_vars, now, user_stake, staking_tokens, lamports>>

\* An interaction of wallet u that takes its snapshot when it is due.
MaybeInitializeUserSnapshot(u) ==
    /\ user_stake[u].exists
    /\ maybe_initialize_user_snapshot(user_stake[u], staking_pool) # user_stake[u]
    /\ user_stake' = [user_stake EXCEPT
                         ![u] = maybe_initialize_user_snapshot(@, staking_pool)]
    /\ last' = StakingStep("maybe_initialize_user_snapshot", "Ok", u, last.added)
    /\ UNCHANGED <<lending_vars, now, staking_pool, staking_tokens, lamports>>

StakingTick ==
    /\ now < MaxStakingTicks * MIN_EPOCH_DURATION
    /\ now' = now + MIN_EPOCH_DURATION
    /\ last' = StakingStep("tick", "Ok", "none", last.added)
    /\ UNCHANGED <<lending_vars, staking_vars, lamports>>

\* The handlers of stake.rs, unstake.rs and claim_rewards.rs, which pay by
\* the emission rate and the time elapsed.
EmissionNext ==
    \/ \E a \in StakeArgs : Stake(a)
    \/ \E a \in UnstakeArgs : Unstake(a)
    \/ \E a \in ClaimRewardsArgs : ClaimRewards(a)
    \/ \E a \in DepositRewardsArgs : DepositRewards(a)
    \/ \E a \in UpdateStakingConfigArgs : UpdateStakingConfig(a)
    \/ StakingTick

EmissionSpec == StakingInit /\ [][EmissionNext]_vars

\* The epochs and the accumulator of epoch_helpers.rs, with every way an
\* epoch ends.
AccumulatorNext ==
    \/ \E a \in StakeArgs : Stake(a)
    \/ \E a \in UnstakeArgs : Unstake(a)
    \/ \E a \in DepositRewardsArgs : DepositRewards(a)
    \/ AdvanceEpoch
    \/ \E a \in AdminArgs : ForceAdvanceEpoch(a)
    \/ MaybeAdvanceEpoch
    \/ \E u \in Stakers : MaybeInitializeUserSnapshot(u)
    \/ StakingTick

AccumulatorSpec == StakingInit /\ [][AccumulatorNext]_vars

\* The epochs of advance_epoch.rs and the payments of distribute_rewards.rs.
DistributionNext ==
    \/ \E a \in StakeArgs : Stake(a)
    \/ \E a \in UnstakeArgs : Unstake(a)
    \/ \E a \in DepositRewardsArgs : DepositRewards(a)
    \/ AdvanceEpoch
    \/ \E batch \in DistributeBatches : DistributeRewards(batch)
    \/ StakingTick

DistributionSpec == StakingInit /\ [][DistributionNext]_vars

(* ---------------------------------------------------------------------- *)
(* Admin instructions: inputs, actions, specification                      *)
(* ---------------------------------------------------------------------- *)
AdminTickSeconds == ADMIN_TRANSFER_DELAY \div 2
MaxAdminTicks == 4

\* The keys that sign admin instructions.
AdminKeys == {ProtocolAdmin, "alice", "bob"}

InitiateAdminTransferArgs ==
    {[signer |-> k, new_admin |-> n] : k \in AdminKeys, n \in AdminKeys \cup {"default"}}

AdminSignerArgs == {[signer |-> k] : k \in AdminKeys}

\* The two builds of the program.
Builds == {"overflow_checks", "wrapping"}

TreasuryFeeChoices == {NoValue, 9000, 9500, 65535}
BuybackFeeChoices == {NoValue, 500, 10001}
OperationsFeeChoices == {NoValue, 0}
ProtocolFeeChoices == {NoValue, 200, 501}

UpdateFeesArgs ==
    {[signer |-> k, protocol_fee_bps |-> p, treasury_fee_bps |-> t,
      buyback_fee_bps |-> b, operations_fee_bps |-> o] :
        k \in {ProtocolAdmin, "alice"}, p \in ProtocolFeeChoices,
        t \in TreasuryFeeChoices, b \in BuybackFeeChoices, o \in OperationsFeeChoices}

\* The last admin step: the instruction, what it returned, who signed it,
\* and when initiate_admin_transfer last succeeded (-1: never).
AdminStep(op, err, who, initiated_at) ==
    [op |-> op, err |-> err, loan |-> 0, nested |-> FALSE, who |-> who,
     initiated_at |-> initiated_at]

AdminInit ==
    /\ protocol_state = InitProtocolState
    /\ token_config = [t \in Tokens |-> InitTokenConfig(t)]
    /\ loans = <<>>
    /\ vault = <<>>
    /\ lamports = [x \in {"treasury", "operations_wallet", "staking_reward_vault"}
                         \cup Borrowers |->
                     IF x = "treasury" THEN InitialTreasury ELSE 0]
    /\ token_balance = [b \in Borrowers |-> [t \in Tokens |-> InitialTokenBalance]]
    /\ user_exposure = [b \in Borrowers |-> FreshExposure]
    /\ pool_price = [t \in Tokens |-> BasePrice]
    /\ now = 0
    /\ inflight = NoTx
    /\ last = AdminStep("init", "Ok", "none", -1)
    /\ staking_pool = InitStakingPool(MIN_EPOCH_DURATION, 0)
    /\ user_stake = [u \in Stakers |-> NoUserStake]
    /\ staking_tokens = [x \in Stakers \cup {"staking_vault"} |-> 0]

AdminStepDone(op, r, who, initiated_at) ==
    /\ protocol_state' = Committed(r).protocol_state
    /\ last' = AdminStep(op, r.err, who, initiated_at)
    /\ UNCHANGED <<token_config, loans, vault, lamports, token_balance,
                   user_exposure, pool_price, now, inflight>>
    /\ UNCHANGED staking_vars

InitiateAdminTransfer(a) ==
    LET r == initiate_admin_transfer(World, a, now)
    IN  AdminStepDone("initiate_admin_transfer", r, a.signer,
                      IF r.err = "Ok" THEN now ELSE last.initiated_at)

AcceptAdminTransfer(a) ==
    AdminStepDone("accept_admin_transfer", accept_admin_transfer(World, a, now),
                  a.signer, last.initiated_at)

CancelAdminTransfer(a) ==
    AdminStepDone("cancel_admin_transfer", cancel_admin_transfer(World, a),
                  a.signer, last.initiated_at)

UpdateFees(a, build) ==
    AdminStepDone("update_fees", update_fees(World, a, build), a.signer,
                  last.initiated_at)

AdminTick ==
    /\ now < MaxAdminTicks * AdminTickSeconds
    /\ now' = now + AdminTickSeconds
    /\ last' = AdminStep("tick", "Ok", "none", last.initiated_at)
    /\ UNCHANGED <<protocol_state, token_config, loans, vault, lamports,
                   token_balance, user_exposure, pool_price, inflight>>
    /\ UNCHANGED staking_vars

AdminNext ==
    \/ \E a \in InitiateAdminTransferArgs : InitiateAdminTransfer(a)
    \/ \E a \in AdminSignerArgs : AcceptAdminTransfer(a)
    \/ \E a \in AdminSignerArgs : CancelAdminTransfer(a)
    \/ \E a \in UpdateFeesArgs : \E build \in Builds : UpdateFees(a, build)
    \/ AdminTick

AdminSpec == AdminInit /\ [][AdminNext]_vars

(* ---------------------------------------------------------------------- *)
(* LoanCalculator: inputs, applications, specification                     *)
(* ---------------------------------------------------------------------- *)
\* base_ltv_bps is a u16, duration_seconds a u64.
BaseLtvChoices == {0, 1, 999, 1000, 2500, 5000, 7200, 8000, 9000, 10000, 65535}
DurationChoices ==
    {0, 1, MIN_LOAN_DURATION - 1, MIN_LOAN_DURATION, MIN_LOAN_DURATION + 1, 86400,
     BASE_DURATION_SECONDS - 1, BASE_DURATION_SECONDS, BASE_DURATION_SECONDS + 1,
     302400, MAX_LOAN_DURATION - 1, MAX_LOAN_DURATION, MAX_LOAN_DURATION + 1,
     2 * MAX_LOAN_DURATION}

\* Amounts are counted in one unit throughout an application (for the
\* scenario of the specification, 10^9 base units); prices and basis points
\* are the code's.
ScenarioPrice == 2000000000
LoanAmountInputs ==
    {<<c, p, l>> : c \in {0, 1, 20, 100}, p \in {0, 1, PRICE_SCALE, 10 * PRICE_SCALE},
                   l \in {0, LTV_BRONZE_BPS, LTV_GOLD_BPS, 9000}}
    \cup {<<1, ScenarioPrice, LTV_GOLD_BPS>>}

\* sol_borrowed and collateral_amount in units of AmountUnit.
LiquidationPriceInputs ==
    {<<s, c, l, b>> : s \in {0, 500, 6250}, c \in {0, 20, 1000},
                      l \in {LTV_BRONZE_BPS, LTV_GOLD_BPS, 7000, 9000},
                      b \in {0, 300, LIQUIDATION_BUFFER_BPS, 6000}}

CalculatorInputs ==
    {[op |-> "input", fn |-> "calculate_duration_adjusted_ltv", args |-> <<b, d>>,
      err |-> "Ok", v |-> 0] : b \in BaseLtvChoices, d \in DurationChoices}
    \cup {[op |-> "input", fn |-> "calculate_loan_amount", args |-> a,
           err |-> "Ok", v |-> 0] : a \in LoanAmountInputs}
    \cup {[op |-> "input", fn |-> "calculate_liquidation_price", args |-> a,
           err |-> "Ok", v |-> 0] : a \in LiquidationPriceInputs}

CalculatorInit ==
    /\ protocol_state = InitProtocolState
    /\ token_config = [t \in Tokens |-> InitTokenConfig(t)]
    /\ loans = <<>>
    /\ vault = <<>>
    /\ lamports = [x \in {"treasury", "operations_wallet", "staking_reward_vault"}
                         \cup Borrowers |->
                     IF x = "treasury" THEN InitialTreasury ELSE 0]
    /\ token_balance = [b \in Borrowers |-> [t \in Tokens |-> InitialTokenBalance]]
    /\ user_exposure = [b \in Borrowers |-> FreshExposure]
    /\ pool_price = [t \in Tokens |-> BasePrice]
    /\ now = 0
    /\ inflight = NoTx
    /\ last \in CalculatorInputs
    /\ staking_pool = InitStakingPool(MIN_EPOCH_DURATION, 0)
    /\ user_stake = [u \in Stakers |-> NoUserStake]
    /\ staking_tokens = [x \in Stakers \cup {"staking_vault"} |-> 0]

CalculatorReturns(fn, err, v) ==
    /\ last.op = "input"
    /\ last.fn = fn
    /\ last' = [last EXCEPT !.op = "output", !.err = err, !.v = v]
    /\ UNCHANGED <<protocol_state, token_config, loans, vault, lamports, token_balance,
                   user_exposure, pool_price, now, inflight>>
    /\ UNCHANGED staking_vars

ApplyDurationAdjustedLtv ==
    /\ last.fn = "calculate_duration_adjusted_ltv"
    /\ CalculatorReturns("calculate_duration_adjusted_ltv", "Ok",
                         calculate_duration_adjusted_ltv(last.args[1], last.args[2]))

ApplyLoanAmount ==
    /\ last.fn = "calculate_loan_amount"
    /\ CalculatorReturns("calculate_loan_amount", "Ok",
                         calculate_loan_amount(last.args[1], last.args[2], last.args[3]))

ApplyLiquidationPrice ==
    /\ last.fn = "calculate_liquidation_price"
    /\ LET r == calculate_liquidation_price(last.args[1], last.args[2],
                                            last.args[3], last.args[4])
       IN  CalculatorReturns("calculate_liquidation_price", r.err, r.v)

CalculatorNext ==
    \/ ApplyDurationAdjustedLtv
    \/ ApplyLoanAmount
    \/ ApplyLiquidationPrice

CalculatorSpec == CalculatorInit /\ [][CalculatorNext]_vars

(* ---------------------------------------------------------------------- *)
(* Properties                                                              *)
(* ---------------------------------------------------------------------- *)
TerminalStatus == {"Repaid", "LiquidatedTime", "LiquidatedPrice"}

PoolPriceOf(i) == pool_price[loans[i].token_mint]

C1_Step ==
    /\ Len(loans') >= Len(loans)
    /\ \A i \in DOMAIN loans :
          loans'[i].status # loans[i].status
             => loans[i].status = "Active" /\ loans'[i].status \in TerminalStatus

\* C1: over every sequence of create_loan, repay_loan and liquidate, a loan's
\* status changes only from Active to Repaid, LiquidatedTime or
\* LiquidatedPrice; once terminal it never changes again.
C1_StatusOnlyLeavesActive == [][C1_Step]_vars

\* A loan that a successful liquidate has just closed on the time trigger.
C1_Witness ==
    /\ last.op = "liquidate" /\ last.err = "Ok"
    /\ loans[last.loan].status = "LiquidatedTime"

RECURSIVE SumActiveBorrowed(_)
SumActiveBorrowed(n) ==
    IF n = 0 THEN 0
    ELSE SumActiveBorrowed(n - 1)
         + (IF loans[n].status = "Active" THEN loans[n].sol_borrowed ELSE 0)

\* C3: the treasury balance is never negative, and after every successful
\* create_loan the sol_borrowed of all Active loans together is at most the
\* treasury balance that call read (the balance before it paid the loan out).
C3_Solvency ==
    /\ lamports["treasury"] >= 0
    /\ (last.op = "create_loan" /\ last.err = "Ok") =>
          SumActiveBorrowed(Len(loans))
             <= lamports["treasury"] + loans[last.loan].sol_borrowed

\* C4: a liquidate that succeeded found the loan overdue (now > due_at) or
\* the pool price at or below liquidation_price, and recorded LiquidatedPrice
\* exactly when the price trigger held; a liquidate that passes the account
\* constraints with neither trigger fails with LoanNotLiquidatable.
C4_LiquidationTriggers ==
    /\ (last.op = "liquidate" /\ last.err = "Ok") =>
          LET l == loans[last.loan]
              by_time == now > l.due_at
              by_price == PoolPriceOf(last.loan) <= l.liquidation_price
          IN  /\ by_time \/ by_price
              /\ l.status = IF by_price THEN "LiquidatedPrice" ELSE "LiquidatedTime"
    /\ \A a \in LiquidateArgs :
          LET l == loans[a.loan]
          IN  (/\ Liquidate_accounts(World, a) = "Ok"
               /\ ~(now > l.due_at)
               /\ ~(PoolPriceOf(a.loan) <= l.liquidation_price))
                 => liquidate_begin(World, a, now, PoolPriceOf(a.loan)).err
                       = "LoanNotLiquidatable"

\* An overdue loan liquidated with the pool price exactly at its
\* liquidation price: both triggers hold and the price is recorded.
C4_Witness ==
    /\ last.op = "liquidate" /\ last.err = "Ok"
    /\ now > loans[last.loan].due_at
    /\ PoolPriceOf(last.loan) = loans[last.loan].liquidation_price
    /\ loans[last.loan].status = "LiquidatedPrice"

\* C5: a create_loan that succeeded lent at most floor(T * 1000 / 10000) and
\* left the mint's total_active_borrowed at most that, T being the treasury
\* balance the call read; of the requests that reach the two caps, exactly
\* those above the first fail with SingleLoanTooLarge and exactly those within
\* the first and above the second fail with TokenExposureTooHigh.
C5_ExposureCaps ==
    /\ (last.op = "create_loan" /\ last.err = "Ok") =>
          LET l == loans[last.loan]
              cap == ((lamports["treasury"] + l.sol_borrowed) * 1000) \div 10000
          IN  /\ l.sol_borrowed <= cap
              /\ token_config[l.token_mint].total_active_borrowed <= cap
    /\ \A a \in CreateLoanArgs :
          LET r == create_loan(World, a, now, pool_price[a.token])
              tc == token_config[a.token]
              amount == calculate_loan_amount(
                            a.collateral_amount, a.approved_price,
                            calculate_duration_adjusted_ltv(tc.ltv_bps, a.duration_seconds))
              cap == (lamports["treasury"] * 1000) \div 10000
          IN  r.err \in {"Ok", "SingleLoanTooLarge", "TokenExposureTooHigh"} =>
                 /\ (r.err = "SingleLoanTooLarge") <=> (amount > cap)
                 /\ (r.err = "TokenExposureTooHigh") <=>
                       (amount <= cap /\ tc.total_active_borrowed + amount > cap)

\* A second request against a mint that already carries a loan has just been
\* refused for the mint's exposure.
C5_Witness ==
    /\ last.op = "create_loan" /\ last.err = "TokenExposureTooHigh"
    /\ \E i \in DOMAIN loans : loans[i].status = "Active"

C6_Step ==
    (/\ last'.op \in {"create_loan", "repay_loan", "liquidate"}
     /\ last'.err \notin {"Ok", "Swapping"})
       => UNCHANGED <<protocol_state, token_config, loans, vault, lamports,
                      token_balance, user_exposure>>

NestedResults ==
    IF inflight = NoTx THEN {}
    ELSE {[accounts |-> CreateLoan_accounts(inflight.w, a),
           r |-> create_loan(inflight.w, a, now, pool_price[a.token])] :
             a \in CreateLoanArgs}
         \cup {[accounts |-> RepayLoan_accounts(inflight.w, a),
                r |-> repay_loan(inflight.w, a)] : a \in RepayLoanArgs}
         \cup {[accounts |-> Liquidate_accounts(inflight.w, a),
                r |-> LET b == liquidate_begin(inflight.w, a, now, PoolPriceOf(a.loan))
                      IN  Result(b.err, b.w)] : a \in LiquidateArgs}

C8_RepayLiquidateRace ==
    \A i \in DOMAIN loans :
       LET l == loans[i]
           ra == [signer |-> l.borrower, loan |-> i]
           la == LiquidateRequest(i)
           price == PoolPriceOf(i)
           rr == repay_loan(World, ra)
           lr == liquidate(World, la, now, price, l.collateral_amount, la.min_sol_output)
           SettledOnce(w) ==
               /\ w.loans[i].status \in TerminalStatus
               /\ w.vault[i].amount = 0
               /\ w.protocol_state.active_loans_count
                     = protocol_state.active_loans_count - 1
               /\ w.protocol_state.total_sol_borrowed
                     = protocol_state.total_sol_borrowed - l.sol_borrowed
               /\ w.token_config[l.token_mint].total_active_borrowed
                     = token_config[l.token_mint].total_active_borrowed - l.sol_borrowed
               /\ w.token_config[l.token_mint].active_loans_count
                     = token_config[l.token_mint].active_loans_count - 1
       IN  (/\ l.status = "Active"
            /\ now > l.due_at
            /\ lamports[l.borrower] >= l.sol_borrowed + protocol_fee_of(l.sol_borrowed)
            /\ rr.err = "Ok"
            /\ lr.err = "Ok")
              => /\ SettledOnce(rr.w) /\ rr.w.loans[i].status = "Repaid"
                 /\ rr.w.token_balance[l.borrower][l.token_mint]
                       = token_balance[l.borrower][l.token_mint] + l.collateral_amount
                 /\ liquidate(rr.w, la, now, price, 0, la.min_sol_output).err
                       = "LoanAlreadyRepaid"
                 /\ SettledOnce(lr.w) /\ lr.w.vault[i].closed
                 /\ repay_loan(lr.w, ra).err = "LoanAlreadyRepaid"

\* The borrower repaid an overdue loan that the liquidator could have
\* liquidated, and the liquidate that came second has just been refused.
C8_Witness ==
    /\ last.op = "liquidate" /\ last.err = "LoanAlreadyRepaid"
    /\ loans[last.loan].status = "Repaid"
    /\ loans[last.loan].token_mint = "RAY"
    /\ now > loans[last.loan].due_at
    /\ vault[last.loan].amount = 0
    /\ protocol_state.active_loans_count = 0

\* C9: a liquidate that reaches the slippage check (account constraints
\* passed, loan liquidatable) with min_sol_output below
\* floor(expected * 9500 / 10000), expected = floor(collateral_amount *
\* pool price / PRICE_SCALE), fails with SlippageTooHigh without invoking the
\* swap; one at or above that floor does not fail with SlippageTooHigh.
C9_SlippageFloor ==
    \A a \in LiquidateArgs :
       LET l == loans[a.loan]
           price == PoolPriceOf(a.loan)
           expected == (l.collateral_amount * price) \div 1000000
           floor == (expected * 9500) \div 10000
           r == liquidate_begin(World, a, now, price)
       IN  (/\ Liquidate_accounts(World, a) = "Ok"
            /\ (now > l.due_at \/ price <= l.liquidation_price))
              => /\ a.min_sol_output < floor => (r.err = "SlippageTooHigh" /\ ~r.swap)
                 /\ a.min_sol_output >= floor => r.err # "SlippageTooHigh"

\* A liquidate one unit under the floor has just been refused before the swap.
C9_Witness ==
    /\ last.op = "liquidate" /\ last.err = "SlippageTooHigh" /\ ~last.nested
    /\ loans[last.loan].status = "Active"
    /\ inflight = NoTx

\* C10: whatever the swap returns to a liquidate in flight, liquidate
\* succeeds only if the realized proceeds (vault authority balance after the
\* swap minus before) are at least min_sol_output; if they are less it fails
\* with SlippageExceeded and the loan stays Active with its collateral in
\* escrow.
C10_RealizedProceeds ==
    \A sold \in SoldChoices, proceeds \in ProceedsChoices :
       LET i == inflight.loan
           after == swap_effect(inflight.w, i, sold, proceeds)
           r == liquidate_after_swap(after, i, inflight.min_sol_output,
                                     inflight.sol_before)
           realized == after.vault[i].lamports - inflight.sol_before
       IN  /\ r.err = "Ok" => realized >= inflight.min_sol_output
           /\ realized < inflight.min_sol_output =>
                 /\ r.err = "SlippageExceeded"
                 /\ Committed(r) = World
                 /\ loans[i].status = "Active"
                 /\ vault[i].amount = loans[i].collateral_amount
                 /\ ~vault[i].closed

\* The swap paid one unit less than min_sol_output and liquidate has just
\* failed: the loan is Active and the collateral is in its vault.
C10_Witness ==
    /\ last.op = "liquidate" /\ last.err = "SlippageExceeded"
    /\ loans[last.loan].status = "Active"
    /\ vault[last.loan].amount = loans[last.loan].collateral_amount

\* What a repay_loan that succeeds from the current state moves, for each
\* request: the debit of the signer and the credits of the three recipients.
RepayMovements ==
    {[principal |-> loans[a.loan].sol_borrowed,
      debit |-> lamports[a.signer] - repay_loan(World, a).w.lamports[a.signer],
      treasury |-> repay_loan(World, a).w.lamports["treasury"] - lamports["treasury"],
      staking |-> repay_loan(World, a).w.lamports["staking_reward_vault"]
                     - lamports["staking_reward_vault"],
      operations |-> repay_loan(World, a).w.lamports["operations_wallet"]
                        - lamports["operations_wallet"]] :
        a \in {x \in RepayLoanArgs : repay_loan(World, x).err = "Ok"}}

C12_OnlyBorrowerRepays ==
    \A a \in RepayLoanArgs :
       LET l == loans[a.loan]
           r == repay_loan(World, a)
       IN  /\ r.err = "Ok" => a.signer = l.borrower
           /\ (l.status = "Active" /\ ~protocol_state.paused /\ a.signer # l.borrower)
                 => /\ r.err = "Unauthorized"
                    /\ Committed(r) = World
                    /\ Committed(r).loans[a.loan].status = "Active"
                    /\ Committed(r).vault[a.loan].amount = l.collateral_amount

\* A repay_loan signed by someone other than the borrower has just been
\* refused; the loan is Active and its collateral is in the vault.
C12_Witness ==
    /\ last.op = "repay_loan" /\ last.err = "Unauthorized" /\ ~last.nested
    /\ loans[last.loan].status = "Active"
    /\ vault[last.loan].amount = loans[last.loan].collateral_amount

(* ---------------------------------------------------------------------- *)
(* Properties of the staking instructions                                  *)
(* ---------------------------------------------------------------------- *)
C13_Step ==
    /\ staking_pool'.reward_per_token_accumulated
          >= staking_pool.reward_per_token_accumulated
    /\ (/\ staking_pool'.current_epoch > staking_pool.current_epoch
        /\ staking_pool.current_epoch_eligible_stake > 0
        /\ staking_pool.current_epoch_rewards > 0)
          => staking_pool'.reward_per_token_accumulated
                = staking_pool.reward_per_token_accumulated
                  + (staking_pool.current_epoch_rewards * REWARD_PRECISION_PER_STAKE_UNIT)
                       \div staking_pool.current_epoch_eligible_stake

\* C13: reward_per_token_accumulated never decreases, and every step that
\* ends an epoch which had eligible stake > 0 and rewards > 0 (by the lazy
\* maybe_advance_epoch, the permissionless advance_epoch or the admin's
\* force_advance_epoch) raises it by exactly
\* floor(epoch_rewards * REWARD_PRECISION / eligible_stake).
C13_AccumulatorGrowth == [][C13_Step]_vars

\* The pending rewards of all stakers, as calculate_pending_rewards has them.
SumPendingRewards ==
    calculate_pending_rewards(user_stake["alice"], staking_pool).v
    + calculate_pending_rewards(user_stake["bob"], staking_pool).v

\* C14: with no claim made, the pending rewards of all stakers together are
\* never more than the epoch rewards that went into the accumulator, and
\* fall short of them by less than one lamport per staker and completed
\* epoch.
C14_RewardConservation ==
    /\ SumPendingRewards <= last.added
    /\ \/ last.added = SumPendingRewards
       \/ last.added - SumPendingRewards
             < Cardinality(Stakers) * staking_pool.total_epochs_completed

\* C15: a wallet that has just staked, in epoch E, has no initialized
\* snapshot and no pending reward, and when epoch E has ended
\* distribute_rewards pays it nothing for epoch E.
C15_NoRewardForStakingEpoch ==
    (last.op = "stake" /\ last.err = "Ok") =>
       LET u == last.who
           ended == advance_epoch(StakingWorld,
                        staking_pool.epoch_start_time + staking_pool.epoch_duration).w
           r == distribute_rewards(ended, <<[record |-> u, wallet |-> u]>>)
       IN  /\ ~user_stake[u].snapshot_initialized
           /\ calculate_pending_rewards(user_stake[u], staking_pool).v = 0
           /\ r.w.lamports[u] = lamports[u]

\* C16: a claim_rewards by a staker with rewards pending returns Ok and pays
\* min(pending, vault balance): it never fails on an underfunded reward
\* vault, and the vault balance and the tracked totals stay non-negative.
C16_ClaimPaysWhatIsAvailable ==
    \A a \in ClaimRewardsArgs :
       LET us == user_stake[a.signer]
           rpt == calculate_reward_per_token(staking_pool,
                      lamports["staking_reward_vault"], now)
           pending == us.pending_rewards + emission_pending_rewards(us, rpt)
           r == claim_rewards(StakingWorld, a, now)
       IN  (us.exists /\ pending > 0) =>
              /\ r.err = "Ok"
              /\ r.w.lamports[a.signer] - lamports[a.signer]
                    = Min(pending, lamports["staking_reward_vault"])
              /\ r.w.lamports["staking_reward_vault"] >= 0

\* C17: an unstake that succeeds for a staker eligible in the current epoch
\* (staked before it began) lowers current_epoch_eligible_stake by the
\* amount, and one that leaves staked_amount = 0 clears the staker's
\* stake_start_epoch, snapshot and snapshot_initialized.
C17_UnstakeEligibility ==
    \A a \in UnstakeArgs :
       LET us == user_stake[a.signer]
           r == unstake(StakingWorld, a, now)
       IN  r.err = "Ok" =>
              /\ (us.staked_amount > 0 /\ staking_pool.current_epoch > us.stake_start_epoch
                  /\ staking_pool.current_epoch_eligible_stake >= a.amount)
                    => r.w.staking_pool.current_epoch_eligible_stake
                          = staking_pool.current_epoch_eligible_stake - a.amount
              /\ r.w.user_stake[a.signer].staked_amount = 0
                    => /\ ~r.w.user_stake[a.signer].snapshot_initialized
                       /\ r.w.user_stake[a.signer].reward_per_token_snapshot = 0
                       /\ r.w.user_stake[a.signer].stake_start_epoch = 0

(* ---------------------------------------------------------------------- *)
(* Properties of distribute_rewards                                        *)
(* ---------------------------------------------------------------------- *)
DistributableEpoch == Max(staking_pool.current_epoch - 1, 0)

OwnPair(u) == [record |-> u, wallet |-> u]

\* distribute_rewards gets as far as its loop over the pairs.
DistributionOpen ==
    /\ staking_pool.last_epoch_rewards > 0
    /\ staking_pool.last_epoch_eligible_stake > 0
    /\ Min(staking_pool.last_epoch_rewards, lamports["staking_reward_vault"])
          >= MIN_DISTRIBUTABLE_REWARDS

\* What a staker with this stake is due out of a vault holding vault_balance.
ShareOutOf(staked_amount, vault_balance) ==
    IF staking_pool.last_epoch_eligible_stake = 0 THEN 0
    ELSE (staked_amount * Min(staking_pool.last_epoch_rewards, vault_balance))
            \div staking_pool.last_epoch_eligible_stake

ShareOf(u) == ShareOutOf(user_stake[u].staked_amount, lamports["staking_reward_vault"])

\* u is due a payment for the distributable epoch.
Payable(u) ==
    /\ user_stake[u].exists
    /\ user_stake[u].stake_start_epoch < DistributableEpoch
    /\ user_stake[u].last_rewarded_epoch < DistributableEpoch
    /\ ShareOf(u) > 0

\* C18: a distribute_rewards call pays a staker at most one share, however
\* often the batch names the staker; a staker already paid for the
\* distributable epoch gets nothing from any batch; and after a call that
\* paid a staker, a call with the same pair returns Ok and changes nothing.
C18_PaidOncePerEpoch ==
    \A b \in DistributeBatches :
       LET r == distribute_rewards(StakingWorld, b)
       IN  r.err = "Ok" =>
              \A u \in Stakers :
                 LET gain == r.w.lamports[u] - lamports[u]
                     again == distribute_rewards(r.w, <<OwnPair(u)>>)
                 IN  /\ gain \in {0, ShareOf(u)}
                     /\ user_stake[u].last_rewarded_epoch >= DistributableEpoch
                           => gain = 0
                     /\ gain > 0 => again.err = "Ok" /\ again.w = r.w

\* A call with alice's pair twice has paid her one share, and the vault
\* still holds enough for another.
C18_Witness ==
    /\ last.op = "distribute_rewards"
    /\ last.err = "Ok"
    /\ last.who = <<OwnPair("alice"), OwnPair("alice")>>
    /\ user_stake["alice"].last_rewarded_epoch = DistributableEpoch
    /\ user_stake["alice"].total_rewards_received > 0
    /\ staking_pool.last_epoch_distributed = user_stake["alice"].total_rewards_received
    /\ lamports["alice"] = user_stake["alice"].total_rewards_received
    /\ lamports["staking_reward_vault"] >= user_stake["alice"].total_rewards_received

\* C19: when the vault pays the first staker of a batch and is then short
\* of the second staker's share, distribute_rewards returns Ok: the first
\* payment is made and counted in last_epoch_distributed, the second record
\* and wallet are untouched, and once the vault holds the second staker's
\* share a call with that pair pays it.
C19_StopsWhenVaultRunsShort ==
    \A u, v \in Stakers :
       (/\ u # v
        /\ DistributionOpen
        /\ Payable(u)
        /\ Payable(v)
        /\ ShareOf(u) <= lamports["staking_reward_vault"]
        /\ lamports["staking_reward_vault"] - ShareOf(u) < ShareOf(v))
       =>
       LET r == distribute_rewards(StakingWorld, <<OwnPair(u), OwnPair(v)>>)
           funded == [r.w EXCEPT !.lamports["staking_reward_vault"] = @ + DepositAmount]
           due == ShareOutOf(user_stake[v].staked_amount,
                             funded.lamports["staking_reward_vault"])
           later == distribute_rewards(funded, <<OwnPair(v)>>)
       IN  /\ r.err = "Ok"
           /\ r.w.lamports[u] = lamports[u] + ShareOf(u)
           /\ r.w.user_stake[u].last_rewarded_epoch = DistributableEpoch
           /\ r.w.staking_pool.last_epoch_distributed
                 = staking_pool.last_epoch_distributed + ShareOf(u)
           /\ r.w.lamports["staking_reward_vault"]
                 = lamports["staking_reward_vault"] - ShareOf(u)
           /\ r.w.user_stake[v] = user_stake[v]
           /\ r.w.lamports[v] = lamports[v]
           /\ (/\ Min(staking_pool.last_epoch_rewards,
                      funded.lamports["staking_reward_vault"]) >= MIN_DISTRIBUTABLE_REWARDS
               /\ due > 0
               /\ due <= funded.lamports["staking_reward_vault"])
                 => /\ later.err = "Ok"
                    /\ later.w.lamports[v] = lamports[v] + due
                    /\ later.w.user_stake[v].last_rewarded_epoch = DistributableEpoch

\* A call with alice's pair and then bob's has paid alice and stopped at
\* bob, whom the vault could no longer pay.
C19_Witness ==
    /\ last.op = "distribute_rewards"
    /\ last.err = "Ok"
    /\ last.who = <<OwnPair("alice"), OwnPair("bob")>>
    /\ user_stake["alice"].last_rewarded_epoch = DistributableEpoch
    /\ staking_pool.last_epoch_distributed = user_stake["alice"].total_rewards_received
    /\ staking_pool.last_epoch_distributed > 0
    /\ user_stake["bob"].staked_amount > 0
    /\ user_stake["bob"].stake_start_epoch < DistributableEpoch
    /\ user_stake["bob"].last_rewarded_epoch < DistributableEpoch
    /\ user_stake["bob"].total_rewards_received = 0
    /\ lamports["bob"] = 0
    /\ lamports["staking_reward_vault"] < staking_pool.last_epoch_distributed

\* What is wrong with a pair, in the order the handler looks: the record is
\* not an account of this program, it is not a UserStake, it is not the
\* UserStake PDA of the wallet, it belongs to another wallet.
PairDefect(pair) ==
    IF pair.record = "forged" THEN "InvalidAccountOwner"
    ELSE IF pair.record = "staking_pool" THEN "InvalidDiscriminator"
    ELSE IF ~user_stake[pair.record].exists THEN "InvalidAccountOwner"
    ELSE IF pair.record # pair.wallet THEN "InvalidPDA"
    ELSE IF user_stake[pair.record].owner # pair.wallet THEN "InvalidStakeOwner"
    ELSE "Ok"

\* The pair makes the loop stop: it is sound and due a share the vault
\* cannot pay.
StopsTheLoop(pair) ==
    /\ PairDefect(pair) = "Ok"
    /\ Payable(pair.record)
    /\ lamports["staking_reward_vault"] < ShareOf(pair.record)

\* C20, as stated: whenever a batch holds a pair that fails one of the four
\* checks, distribute_rewards fails, and once its guards on the pool are
\* passed it fails with the error of the first such pair.
C20_DefectivePairFailsTheCall ==
    \A b \in DistributeBatches :
       \A i \in 1..Len(b) :
          (/\ PairDefect(b[i]) # "Ok"
           /\ \A j \in 1..(i - 1) : PairDefect(b[j]) = "Ok")
          =>
          LET r == distribute_rewards(StakingWorld, b)
          IN  /\ r.err # "Ok"
              /\ (staking_pool.last_epoch_rewards > 0
                  /\ staking_pool.last_epoch_eligible_stake > 0)
                    => r.err = PairDefect(b[i])

\* C20, amended: no batch ever pays a wallet or changes a record except
\* through a pair that passes the four checks, and a failing call leaves
\* everything as it was; when the loop reaches a pair that fails a check
\* (distribution is open and no earlier pair stopped the loop), the call
\* fails with InvalidAccountOwner, InvalidDiscriminator, InvalidPDA or
\* InvalidStakeOwner, whichever check fails first.
C20_OnlySoundPairsArePaid ==
    \A b \in DistributeBatches :
       LET r == distribute_rewards(StakingWorld, b)
           sound == {b[i].record : i \in {j \in 1..Len(b) : PairDefect(b[j]) = "Ok"}}
       IN  /\ r.err # "Ok" => StakingCommitted(r) = StakingWorld
           /\ \A u \in Stakers :
                 u \notin sound =>
                    /\ StakingCommitted(r).user_stake[u] = user_stake[u]
                    /\ StakingCommitted(r).lamports[u] = lamports[u]
           /\ \A i \in 1..Len(b) :
                 (/\ DistributionOpen
                  /\ PairDefect(b[i]) # "Ok"
                  /\ \A j \in 1..(i - 1) :
                        PairDefect(b[j]) = "Ok" /\ ~StopsTheLoop(b[j]))
                 => r.err = PairDefect(b[i])

\* A call whose first pair was alice's, due and payable, and whose second
\* pair named alice's record with bob's wallet has failed with InvalidPDA,
\* and neither of them holds anything.
C20_Witness ==
    /\ last.op = "distribute_rewards"
    /\ last.err = "InvalidPDA"
    /\ last.who = <<OwnPair("alice"), [record |-> "alice", wallet |-> "bob"]>>
    /\ DistributionOpen
    /\ Payable("alice")
    /\ ShareOf("alice") <= lamports["staking_reward_vault"]
    /\ user_stake["alice"].total_rewards_received = 0
    /\ lamports["alice"] = 0
    /\ lamports["bob"] = 0

(* ---------------------------------------------------------------------- *)
(* Properties of the admin instructions                                    *)
(* ---------------------------------------------------------------------- *)
\* The admin changes only by this step.
C21_Step ==
    protocol_state'.admin # protocol_state.admin =>
       /\ last'.op = "accept_admin_transfer"
       /\ last'.err = "Ok"
       /\ last'.who = protocol_state.pending_admin
       /\ protocol_state'.admin = last'.who
       /\ last.initiated_at >= 0
       /\ now - last.initiated_at >= ADMIN_TRANSFER_DELAY

\* What accept_admin_transfer answers as things stand.
C21_State ==
    \A a \in AdminSignerArgs :
       LET r == accept_admin_transfer(World, a, now)
       IN  /\ (/\ a.signer = protocol_state.pending_admin
               /\ now - last.initiated_at < ADMIN_TRANSFER_DELAY)
                 => r.err = "AdminTransferTooEarly"
           /\ a.signer # protocol_state.pending_admin => r.err = "Unauthorized"
           /\ (last.op = "cancel_admin_transfer" /\ last.err = "Ok")
                 => r.err = "Unauthorized"

C22_FeeSplitsSumTo10000 ==
    /\ protocol_state.treasury_fee_bps + protocol_state.buyback_fee_bps
          + protocol_state.operations_fee_bps = FEE_SPLIT_TOTAL_BPS
    /\ \A a \in UpdateFeesArgs : \A build \in Builds :
          LET r == update_fees(World, a, build)
              treasury == IF a.treasury_fee_bps = NoValue
                          THEN protocol_state.treasury_fee_bps ELSE a.treasury_fee_bps
              buyback == IF a.buyback_fee_bps = NoValue
                         THEN protocol_state.buyback_fee_bps ELSE a.buyback_fee_bps
              operations == IF a.operations_fee_bps = NoValue
                            THEN protocol_state.operations_fee_bps
                            ELSE a.operations_fee_bps
          IN  (/\ a.signer = protocol_state.admin
               /\ treasury + buyback + operations # FEE_SPLIT_TOTAL_BPS)
              => /\ r.err = "InvalidFeeConfiguration"
                 /\ Committed(r) = World

(* ---------------------------------------------------------------------- *)
(* Properties of the LoanCalculator                                        *)
(* ---------------------------------------------------------------------- *)
Returned(fn) == last.op = "output" /\ last.fn = fn

\* C23: calculate_duration_adjusted_ltv returns a value in [1000, 9000] for
\* every base LTV and every duration, those below 12 h and above 7 d
\* included, without SafeMath::sub underflowing or the sum leaving u16's
\* range before it is bounded, and no longer duration gives a larger value.
C23_DurationAdjustedLtv ==
    Returned("calculate_duration_adjusted_ltv") =>
       LET base == last.args[1]
           d == last.args[2]
       IN  /\ last.err = "Ok"
           /\ last.v >= 1000
           /\ last.v <= 9000
           /\ duration_scaled_ltv(base, d) >= 0
           /\ duration_scaled_ltv(base, d) < 2 * U16_MODULUS
           /\ \A d2 \in DurationChoices :
                 d2 >= d => calculate_duration_adjusted_ltv(base, d2) <= last.v
           /\ d < MIN_LOAN_DURATION
                 => last.v = calculate_duration_adjusted_ltv(base, MIN_LOAN_DURATION)
           /\ d > MAX_LOAN_DURATION
                 => last.v = calculate_duration_adjusted_ltv(base, MAX_LOAN_DURATION)

\* A base LTV of 50% asked for twice the longest duration came back as the
\* 7-day value, 3750.
C23_Witness ==
    /\ Returned("calculate_duration_adjusted_ltv")
    /\ last.args = <<LTV_GOLD_BPS, 2 * MAX_LOAN_DURATION>>
    /\ last.v = 3750

\* C24: calculate_loan_amount returns
\* floor(collateral_amount * price * ltv_bps / (PRICE_SCALE * 10000)), and
\* for collateral 10^9 (one unit), price 2_000_000_000 and 5000 bps it
\* returns 10^9 (one unit).
C24_LoanAmountFormula ==
    Returned("calculate_loan_amount") =>
       /\ last.v = mul_div(last.args[1] * last.args[2], last.args[3], PRICE_SCALE)
                       \div BPS_DIVISOR
       /\ last.args = <<1, ScenarioPrice, LTV_GOLD_BPS>> => last.v = 1

\* C25: calculate_liquidation_price divides by the collateral taken at
\* min(ltv_bps + liquidation_buffer_bps, 9000): with 500 units borrowed
\* against 1000 units at 5000 + 4000 bps it returns 5555, and whenever
\* ltv_bps + buffer >= 9000 it returns what it returns for a sum of
\* exactly 9000.
C25_LiquidationPriceCap ==
    Returned("calculate_liquidation_price") =>
       LET s == last.args[1]
           c == last.args[2]
           l == last.args[3]
           b == last.args[4]
           at_cap == calculate_liquidation_price(s, c, 9000, 0)
       IN  /\ (s = 500 /\ c = 1000 /\ l = 5000 /\ b \in {4000, 6000})
                 => last.err = "Ok" /\ last.v = 5555
           /\ l + b >= 9000 => last.err = at_cap.err /\ last.v = at_cap.v
           /\ (l + b < 9000 /\ c * (l + b) >= BPS_DIVISOR)
                 => /\ last.err = "Ok"
                    /\ last.v = (s * BPS_DIVISOR) \div ((c * (l + b)) \div BPS_DIVISOR)

\* 500 units borrowed against 1000 at 5000 bps with a buffer of 6000 bps
\* came back as 5555.
C25_Witness ==
    /\ Returned("calculate_liquidation_price")
    /\ last.args = <<500, 1000, 5000, 6000>>
    /\ last.v = 5555

(* ---------------------------------------------------------------------- *)
(* Properties of the epoch advances                                        *)
(* ---------------------------------------------------------------------- *)
\* The step ends epochs: one, or with the lazy loop one per elapsed duration.
EpochAdvances == staking_pool'.current_epoch > staking_pool.current_epoch

C26_Step ==
    EpochAdvances =>
       /\ staking_pool'.epoch_start_time
             = staking_pool.epoch_start_time
               + (staking_pool'.current_epoch - staking_pool.current_epoch)
                 * staking_pool.epoch_duration
       /\ staking_pool'.current_epoch_eligible_stake = staking_pool.total_staked
       /\ last'.op # "maybe_advance_epoch"
             => staking_pool'.current_epoch = staking_pool.current_epoch + 1
       /\ last'.op = "maybe_advance_epoch"
             => /\ now < staking_pool'.epoch_start_time + staking_pool'.epoch_duration
                /\ now >= staking_pool'.epoch_start_time

\* C26: every step that ends an epoch moves epoch_start_time forward by one
\* epoch_duration for each epoch it ends, never to the current time, and sets
\* current_epoch_eligible_stake to total_staked; advance_epoch and
\* force_advance_epoch end exactly one epoch, and the lazy loop ends one per
\* elapsed duration and stops with
\* epoch_start_time <= current_time < epoch_start_time + epoch_duration.
C26_FixedCadence == [][C26_Step]_vars

C27_Step ==
    (/\ staking_pool'.current_epoch = staking_pool.current_epoch + 1
     /\ staking_pool.current_epoch_rewards > 0
     /\ staking_pool.current_epoch_eligible_stake = 0)
    => staking_pool'.current_epoch_rewards = staking_pool.current_epoch_rewards

\* C27: a step that ends one epoch which had rewards > 0 and no eligible
\* stake carries the rewards unchanged into the new epoch's
\* current_epoch_rewards, on every path (lazy, advance_epoch,
\* force_advance_epoch) and whatever total_staked is.
C27_RollOver == [][C27_Step]_vars

\* C28: a staker whose snapshot is initialized has reward_per_token_snapshot
\* <= reward_per_token_accumulated, so calculate_pending_rewards returns Ok
\* and a pending reward that is not negative.
C28_SnapshotNotAhead ==
    \A u \in Stakers :
       /\ user_stake[u].snapshot_initialized
             => user_stake[u].reward_per_token_snapshot
                   <= staking_pool.reward_per_token_accumulated
       /\ calculate_pending_rewards(user_stake[u], staking_pool).err = "Ok"
       /\ calculate_pending_rewards(user_stake[u], staking_pool).v >= 0

\* alice's snapshot was taken before an epoch was settled: the accumulator
\* is ahead of it and she has a reward pending.
C28_Witness ==
    /\ user_stake["alice"].snapshot_initialized
    /\ user_stake["alice"].reward_per_token_snapshot
          < staking_pool.reward_per_token_accumulated
    /\ calculate_pending_rewards(user_stake["alice"], staking_pool).v > 0

(* ---------------------------------------------------------------------- *)
(* Properties of the order of status writes and external calls             *)
(* ---------------------------------------------------------------------- *)
\* C29: whenever liquidate is suspended in its external swap, the loan it
\* closes already reads LiquidatedTime or LiquidatedPrice in the world the
\* swap runs in; and every repay_loan that passes its account constraints and
\* reaches its first transfer issues that transfer in a world where the loan
\* already reads Repaid.  No external call sees the loan being closed Active.
C29_StatusBeforeExternalCall ==
    /\ inflight # NoTx
          => inflight.w.loans[inflight.loan].status
                \in {"LiquidatedTime", "LiquidatedPrice"}
    /\ \A a \in RepayLoanArgs :
          LET t == repay_loan_until_transfers(World, a)
          IN  (RepayLoan_accounts(World, a) = "Ok" /\ t.calls)
                 => t.w.loans[a.loan].status = "Repaid"

\* A liquidation is suspended in its swap with its loan already marked in
\* the world of the swap, the committed loan still Active; had the borrower
\* repaid instead, the transfers would have been issued with the loan Repaid.
C29_Witness ==
    /\ inflight # NoTx
    /\ loans[inflight.loan].status = "Active"
    /\ inflight.w.loans[inflight.loan].status \in {"LiquidatedTime", "LiquidatedPrice"}
    /\ LET a == [signer |-> loans[inflight.loan].borrower, loan |-> inflight.loan]
       IN  /\ RepayLoan_accounts(World, a) = "Ok"
           /\ repay_loan_until_transfers(World, a).calls

\* C30: between top-level instructions the reentrancy guard is false; it is
\* true only while liquidate is suspended in its swap, and every create_loan,
\* repay_loan and liquidate that returned Ok has cleared it.
C30_GuardClearBetweenInstructions ==
    /\ inflight = NoTx => ~protocol_state.reentrancy_guard
    /\ (last.op \in {"create_loan", "repay_loan", "liquidate"} /\ last.err = "Ok")
          => ~protocol_state.reentrancy_guard

\* A liquidation went through its swap, closed the vault and returned Ok
\* with the guard clear.
C30_Witness ==
    /\ last.op = "liquidate" /\ last.err = "Ok" /\ ~last.nested
    /\ inflight = NoTx
    /\ ~protocol_state.reentrancy_guard
    /\ vault[last.loan].closed

(* ---------------------------------------------------------------------- *)
(* Properties of the lending bookkeeping                                   *)
(* ---------------------------------------------------------------------- *)
\* C31: whatever the swap returns to a liquidate in flight, a liquidate that
\* succeeds credits the operations wallet floor(proceeds * 500 / 10000) and
\* the treasury proceeds minus that, debits the vault authority exactly
\* proceeds, and the two credits sum to proceeds.
C31_ProceedsSplit ==
    \A sold \in SoldChoices, proceeds \in ProceedsChoices :
       LET i == inflight.loan
           after == swap_effect(inflight.w, i, sold, proceeds)
           r == liquidate_after_swap(after, i, inflight.min_sol_output,
                                     inflight.sol_before)
           realized == after.vault[i].lamports - inflight.sol_before
           to_operations == r.w.lamports["operations_wallet"]
                               - after.lamports["operations_wallet"]
           to_treasury == r.w.lamports["treasury"] - after.lamports["treasury"]
       IN  r.err = "Ok" =>
              /\ to_operations = (realized * 500) \div 10000
              /\ to_treasury = realized - to_operations
              /\ after.vault[i].lamports - r.w.vault[i].lamports = realized
              /\ to_operations + to_treasury = realized

\* A liquidation is in flight whose swap can return proceeds that liquidate
\* accepts and that 500 / 10000 does not divide evenly.
C31_Witness ==
    /\ inflight # NoTx
    /\ \E sold \in SoldChoices, proceeds \in ProceedsChoices :
          /\ liquidate_after_swap(swap_effect(inflight.w, inflight.loan, sold, proceeds),
                                  inflight.loan, inflight.min_sol_output,
                                  inflight.sol_before).err = "Ok"
          /\ (proceeds * 500) % 10000 # 0
          /\ (proceeds * 500) \div 10000 > 0

\* The repay_loan of loan i signed by its recorded borrower.
BorrowerRepays(i) == [signer |-> loans[i].borrower, loan |-> i]

\* C32: between instructions, while the protocol is running, a repay_loan of
\* an Active loan signed by its recorded borrower, who holds principal + fee,
\* succeeds: the loan reads Repaid and the whole collateral is back with the
\* borrower.
C32_BorrowerCanRepay ==
    \A i \in DOMAIN loans :
       LET l == loans[i]
           r == repay_loan(World, BorrowerRepays(i))
       IN  (/\ inflight = NoTx
            /\ ~protocol_state.paused
            /\ l.status = "Active"
            /\ lamports[l.borrower] >= l.sol_borrowed + protocol_fee_of(l.sol_borrowed))
           => /\ r.err = "Ok"
              /\ r.w.loans[i].status = "Repaid"
              /\ r.w.token_balance[l.borrower][l.token_mint]
                    = token_balance[l.borrower][l.token_mint] + l.collateral_amount

\* The loans that are Active.
ActiveLoans == {i \in DOMAIN loans : loans[i].status = "Active"}

\* C33: in every state the lending and admin instructions reach,
\* protocol_state.total_sol_borrowed is the sum of sol_borrowed over the
\* Active loans and protocol_state.active_loans_count is their number, so no
\* close of an Active loan can underflow these counters.
C33_ProtocolCounters ==
    /\ protocol_state.total_sol_borrowed = SumActiveBorrowed(Len(loans))
    /\ protocol_state.active_loans_count = Cardinality(ActiveLoans)
    /\ \A i \in ActiveLoans :
          /\ protocol_state.total_sol_borrowed >= loans[i].sol_borrowed
          /\ protocol_state.active_loans_count >= 1

\* The Active loans against mint t.
ActiveLoansOf(t) == {i \in ActiveLoans : loans[i].token_mint = t}

RECURSIVE SumBorrowedOf(_)
SumBorrowedOf(S) ==
    IF S = {} THEN 0
    ELSE LET i == CHOOSE x \in S : TRUE
         IN  loans[i].sol_borrowed + SumBorrowedOf(S \ {i})

C35_LiquidationPriceBelowEntry ==
    \A i \in DOMAIN loans :
       /\ loans[i].liquidation_price < loans[i].entry_price
       /\ ~is_loan_liquidatable_by_price(loans[i], loans[i].entry_price)

\* The collateral value create_loan computes for its minimum-value check.
CollateralValueOf(l) == mul_div(l.collateral_amount, l.entry_price, PRICE_SCALE)

\* The duration-adjusted LTV create_loan computed for loan l.
EffectiveLtvOf(l) ==
    calculate_duration_adjusted_ltv(token_config[l.token_mint].ltv_bps,
                                    l.due_at - l.created_at)

\* C36: every loan create_loan wrote has sol_borrowed within the collateral
\* value the handler computed, floor(collateral_amount * price / PRICE_SCALE):
\* sol_borrowed <= collateral_value * effective_ltv / 10000 with
\* effective_ltv <= 9000.
C36_LoanWithinCollateralValue ==
    \A i \in DOMAIN loans :
       /\ EffectiveLtvOf(loans[i]) <= 9000
       /\ loans[i].sol_borrowed
             <= (CollateralValueOf(loans[i]) * EffectiveLtvOf(loans[i])) \div 10000
       /\ loans[i].sol_borrowed <= CollateralValueOf(loans[i])

(* ---------------------------------------------------------------------- *)
(* Properties of the eligible stake and of the epoch's payments            *)
(* ---------------------------------------------------------------------- *)
\* C37: in every state that stake, unstake, deposit_rewards and the epoch
\* advances reach, current_epoch_eligible_stake <= total_staked: the share
\* denominator counts no stake that was withdrawn.
C37_EligibleStakeIsStaked ==
    staking_pool.current_epoch_eligible_stake <= staking_pool.total_staked

\* C38: in every state, the total distribute_rewards has paid for the
\* distributable epoch, over all its calls and batches and whatever stake
\* and unstake did in between, is within that epoch's reward pool:
\* last_epoch_distributed <= last_epoch_rewards.
C38_PaidWithinEpochRewards ==
    staking_pool.last_epoch_distributed <= staking_pool.last_epoch_rewards

\* What wallet u has gained in world w over the current state.
GainIn(w, u) == w.lamports[u] - lamports[u]

\* C39: take two stakers with equal staked_amount who are both due a payment
\* for the distributable epoch.  Paid in one distribute_rewards call or in
\* two calls, in either order, every call returning Ok, each receives the
\* same share, and the two shares are equal.
C39_ShareIndependentOfBatching ==
    \A u, v \in Stakers :
       (/\ u # v
        /\ DistributionOpen
        /\ Payable(u) /\ Payable(v)
        /\ user_stake[u].staked_amount = user_stake[v].staked_amount)
       => LET together == distribute_rewards(StakingWorld, <<OwnPair(u), OwnPair(v)>>)
              first == distribute_rewards(StakingWorld, <<OwnPair(u)>>)
              apart == distribute_rewards(first.w, <<OwnPair(v)>>)
          IN  (together.err = "Ok" /\ first.err = "Ok" /\ apart.err = "Ok")
              => /\ GainIn(together.w, u) = GainIn(together.w, v)
                 /\ GainIn(apart.w, u) = GainIn(apart.w, v)
                 /\ GainIn(apart.w, u) = GainIn(together.w, u)
                 /\ GainIn(apart.w, v) = GainIn(together.w, v)

(* ---------------------------------------------------------------------- *)
(* Properties of the fee-split interface                                   *)
(* ---------------------------------------------------------------------- *)
C40_Step ==
    LET entered == lamports'["staking_reward_vault"] - lamports["staking_reward_vault"]
    IN  entered > 0 =>
           /\ staking_pool'.current_epoch_rewards
                 = staking_pool.current_epoch_rewards + entered
           /\ staking_pool'.total_rewards_deposited
                 = staking_pool.total_rewards_deposited + entered

====
